---- MODULE Spec2Model ----
(***************************************************************************)
(* Model of the two multinomial Naive Bayes engines of the sentiment       *)
(* analysis library: sentiment::NaiveBayes (src/naive_bayes.cpp) and       *)
(* sentiment::NaiveBayesClassifier (src/NaiveBayesClassifier.cpp).         *)
(*                                                                         *)
(* Numbers.  Feature values and alpha are integer-valued doubles.  A       *)
(* double that holds the logarithm of a quotient is modelled exactly: a    *)
(* finite value log(n/d) is the reduced fraction n/d, and the IEEE values  *)
(* -inf, +inf and NaN that std::log and the division produce are kept as   *)
(* separate kinds.  Rounding of finite values is not modelled.             *)
(***************************************************************************)
EXTENDS Integers, Sequences, FiniteSets, TLC

\* ------------------------------------------------------------------ bounds
MaxDocs == 2
MaxLen == 2
MaxCount == 1
MaxAlpha == 1
MaxTrains == 2
MaxDocLen == 2
MaxCorpus == 2
MaxMinFrequency == 2
MaxVocabCap == 1
MaxEval == 2
MaxText == 4
MaxLoad == 2

\* ----------------------------------------------------------- input domains
\* enum class SentimentLabel; UNKNOWN doubles as the "no class" return value.
SentimentLabel == {"POSITIVE", "NEGATIVE", "NEUTRAL", "UNKNOWN"}
\* Labels given to NaiveBayes::train in the explored runs.
NBLabels == {"POSITIVE", "NEGATIVE"}
\* std::string labels given to NaiveBayesClassifier::train, listed in
\* ascending std::string order (operator< is lexicographic on bytes).
NBCLabelSeq == <<"negative", "positive">>
NBCLabels == {NBCLabelSeq[i] : i \in 1..Len(NBCLabelSeq)}
\* Constructor arguments: non-positive and positive smoothing values.
Alphas == 0..MaxAlpha

\* std::vector<double> of length 0..MaxLen with entries 0..MaxCount
Vectors == UNION {[1..n -> 0..MaxCount] : n \in 0..MaxLen}
\* utils.h FeatureVector {features, label}
Examples == [features : Vectors, label : NBLabels]
SeqsUpTo(S, n) == UNION {[1..k -> S] : k \in 0..n}
Perms(S) == {p \in [1..Cardinality(S) -> S] : \A i, j \in DOMAIN p : p[i] = p[j] => i = j}

\* ----------------------------------------------------------- arithmetic
RECURSIVE Gcd(_, _)
Gcd(a, b) == IF b = 0 THEN a ELSE Gcd(b, a % b)

RECURSIVE Pow(_, _)
Pow(b, e) == IF e = 0 THEN 1 ELSE b * Pow(b, e - 1)

RECURSIVE SeqSum(_)
SeqSum(s) == IF s = <<>> THEN 0 ELSE Head(s) + SeqSum(Tail(s))

\* The sum of f over the keys S
RECURSIVE SumOver(_, _)
SumOver(f, S) ==
    IF S = {} THEN 0 ELSE LET x == CHOOSE y \in S : TRUE IN f[x] + SumOver(f, S \ {x})

Abs(x) == IF x < 0 THEN 0 - x ELSE x

\* a/b < c/d for positive integers, by the Euclidean expansion (no products)
RECURSIVE FracLess(_, _, _, _)
FracLess(a, b, c, d) ==
    LET q1 == a \div b
        q2 == c \div d
        r1 == a % b
        r2 == c % d
    IN  IF q1 # q2 THEN q1 < q2
        ELSE IF r2 = 0 THEN FALSE
        ELSE IF r1 = 0 THEN TRUE
        ELSE FracLess(d, r2, b, r1)

\* A double holding a logarithm: log(n/d), -inf, +inf or NaN.
Fin(n, d) == LET g == Gcd(n, d) IN [k |-> "fin", n |-> n \div g, d |-> d \div g]
NInf == [k |-> "ninf", n |-> 0, d |-> 1]
PInf == [k |-> "pinf", n |-> 1, d |-> 0]
NaN == [k |-> "nan", n |-> 0, d |-> 0]

\* std::log(num / den) in IEEE double arithmetic
LogQuot(num, den) ==
    IF den = 0 THEN (IF num > 0 THEN PInf ELSE NaN)
    ELSE IF num = 0 THEN NInf
    ELSE IF (num > 0) = (den > 0) THEN Fin(Abs(num), Abs(den))
    ELSE NaN

\* count * x for a count > 0
LogScale(count, x) ==
    IF x.k = "fin" THEN Fin(Pow(x.n, count), Pow(x.d, count)) ELSE x

\* x + y
LogAdd(x, y) ==
    IF x.k = "nan" \/ y.k = "nan" THEN NaN
    ELSE IF x.k = "fin" /\ y.k = "fin" THEN Fin(x.n * y.n, x.d * y.d)
    ELSE IF x.k = "fin" THEN y
    ELSE IF y.k = "fin" THEN x
    ELSE IF x.k = y.k THEN x
    ELSE NaN

\* x > y (false whenever an operand is NaN)
LogGt(x, y) ==
    IF x.k = "nan" \/ y.k = "nan" THEN FALSE
    ELSE IF x.k = "pinf" THEN y.k # "pinf"
    ELSE IF x.k = "ninf" THEN FALSE
    ELSE IF y.k = "ninf" THEN TRUE
    ELSE IF y.k = "pinf" THEN FALSE
    ELSE FracLess(y.n, y.d, x.n, x.d)

\* ------------------------------------------------------------ NaiveBayes
\* Value of a map at a key that may be absent (0 after operator[] inserts it)
At0(f, key) == IF key \in DOMAIN f THEN f[key] ELSE 0

\* The inner map at a key that may be absent (empty after operator[] inserts it)
MapAt(f, key) == IF key \in DOMAIN f THEN f[key] ELSE <<>>

\* The keys of a sequence of examples
LabelsOf(data) == {data[k].label : k \in DOMAIN data}

\* NaiveBayes::NaiveBayes(double alpha): the fields after construction.
\* order is the iteration order of the unordered_map classPriors, which the
\* standard leaves to the implementation; it is stable while the map is not
\* modified.
NaiveBayesCtor(alpha) ==
    [alpha |-> alpha, trained |-> FALSE, featureCount |-> 0,
     classPriors |-> <<>>, order |-> <<>>,
     logLikelihoods |-> <<>>, classTotals |-> <<>>]

\* One pass of the loop body of train (lines 28-42) over example k:
\* acc.cnt = classCounts, acc.ll = logLikelihoods (raw sums), acc.tot = classTotals.
\* A write at index i >= featureCount is out of the vector's bounds and is
\* not stored (see NBOutOfBounds); the class total is still updated.
NBAccumulateStep(acc, ex, featureCount) ==
    LET l == ex.label
        old == IF l \in DOMAIN acc.ll THEN acc.ll[l] ELSE [i \in 1..featureCount |-> 0]
        new == [i \in 1..featureCount |->
                   IF i <= Len(ex.features) THEN old[i] + ex.features[i] ELSE old[i]]
    IN  [cnt |-> (l :> (At0(acc.cnt, l) + 1)) @@ acc.cnt,
         ll |-> (l :> new) @@ acc.ll,
         tot |-> (l :> (At0(acc.tot, l) + SeqSum(ex.features))) @@ acc.tot]

RECURSIVE NBAccumulate(_, _, _, _)
NBAccumulate(acc, data, k, featureCount) ==
    IF k > Len(data) THEN acc
    ELSE NBAccumulate(NBAccumulateStep(acc, data[k], featureCount), data, k + 1, featureCount)

\* Line 39 writes logLikelihoods[label][i] for i < example.features.size():
\* undefined behaviour when an example is longer than the first one.
NBOutOfBounds(data) ==
    \E k \in DOMAIN data : Len(data[k].features) > Len(data[1].features)

\* The body of train after the empty check (lines 17-67), for non-empty data.
\* order: the iteration order of classPriors after the insertions of line 47.
NBTrainBody(nb, data, order) ==
    LET featureCount == Len(data[1].features)
        acc == NBAccumulate([cnt |-> <<>>, ll |-> <<>>, tot |-> <<>>], data, 1, featureCount)
        totalExamples == Len(data)
        priors == [l \in DOMAIN acc.cnt |-> [n |-> acc.cnt[l] \div Gcd(acc.cnt[l], totalExamples),
                                              d |-> totalExamples \div Gcd(acc.cnt[l], totalExamples)]]
    IN  [alpha |-> nb.alpha,
         trained |-> TRUE,
         featureCount |-> featureCount,
         classPriors |-> priors @@ nb.classPriors,
         order |-> order,
         logLikelihoods |-> [l \in DOMAIN acc.ll |->
                               [i \in 1..featureCount |->
                                  LogQuot(acc.ll[l][i] + nb.alpha,
                                          acc.tot[l] + nb.alpha * featureCount)]],
         classTotals |-> acc.tot]

\* The keys classPriors holds after train(data)
NBPriorKeysAfter(nb, data) == DOMAIN nb.classPriors \cup LabelsOf(data)

\* bool NaiveBayes::train(trainingData): the engine after the call
\* (unchanged when the data is empty, lines 12-15)
NBTrain(nb, data, order) ==
    IF data = <<>> THEN nb ELSE NBTrainBody(nb, data, order)

\* The return value of train
NBTrainReturn(data) == data # <<>>

\* logProb of one class, lines 88-95.  logLikelihoods.at(label) is evaluated
\* only for a feature > 0 and throws std::out_of_range for a missing key.
NBThrows(nb, label, features) ==
    /\ label \notin DOMAIN nb.logLikelihoods
    /\ \E i \in DOMAIN features : features[i] > 0

RECURSIVE NBLogProbFrom(_, _, _, _, _)
NBLogProbFrom(nb, label, features, i, logProb) ==
    IF i > Len(features) THEN logProb
    ELSE NBLogProbFrom(nb, label, features, i + 1,
            IF features[i] > 0
            THEN LogAdd(logProb, LogScale(features[i], nb.logLikelihoods[label][i]))
            ELSE logProb)

NBLogProb(nb, label, features) ==
    NBLogProbFrom(nb, label, features, 1,
                  LogQuot(nb.classPriors[label].n, nb.classPriors[label].d))

\* The comparison of line 98
NBBetter(logProb, maxLogProb) == LogGt(logProb, maxLogProb)

\* The loop of lines 86-102 from position k of the iteration order
RECURSIVE NBPredictLoop(_, _, _, _, _)
NBPredictLoop(nb, features, k, maxLogProb, bestLabel) ==
    IF k > Len(nb.order) THEN [ret |-> bestLabel, err |-> "none"]
    ELSE IF NBThrows(nb, nb.order[k], features)
         THEN [ret |-> "", err |-> "out_of_range"]
    ELSE LET logProb == NBLogProb(nb, nb.order[k], features)
         IN  IF NBBetter(logProb, maxLogProb)
             THEN NBPredictLoop(nb, features, k + 1, logProb, nb.order[k])
             ELSE NBPredictLoop(nb, features, k + 1, maxLogProb, bestLabel)

\* SentimentLabel NaiveBayes::predict(features) const.
\* ret is the returned label ("" when an exception leaves the call), err the
\* error reported: NotTrained and DimensionMismatch are the two messages
\* written to std::cerr, out_of_range the exception of unordered_map::at.
NBPredict(nb, features) ==
    IF ~nb.trained THEN [ret |-> "UNKNOWN", err |-> "NotTrained"]
    ELSE IF Len(features) # nb.featureCount
         THEN [ret |-> "UNKNOWN", err |-> "DimensionMismatch"]
    ELSE NBPredictLoop(nb, features, 1, NInf, "UNKNOWN")

\* Mutant: line 100 written as a write through classPriors[bestLabel], which
\* inserts the key UNKNOWN when no class was better than -infinity
NBAfterPredict_Inserts(nb, features) ==
    IF nb.trained /\ "UNKNOWN" \notin DOMAIN nb.classPriors
    THEN [nb EXCEPT !.classPriors = ("UNKNOWN" :> [n |-> 0, d |-> 1]) @@ nb.classPriors,
                    !.order = Append(nb.order, "UNKNOWN")]
    ELSE nb

\* The object after predict(features): predict is a const member function and
\* reads the maps through range-for, at() and find() only (lines 70-105)
NBAfterPredict(nb, features) == nb

\* -------------------------------------------------- NaiveBayesClassifier
\* std::string operator< on the labels of NBCLabelSeq
StrLess(a, b) ==
    \E i, j \in DOMAIN NBCLabelSeq : NBCLabelSeq[i] = a /\ NBCLabelSeq[j] = b /\ i < j

\* The elements of a std::set<std::string> in iteration (ascending) order
RECURSIVE SortedSeq(_)
SortedSeq(S) ==
    IF S = {} THEN <<>>
    ELSE LET least == CHOOSE a \in S : \A b \in S \ {a} : StrLess(a, b)
         IN  <<least>> \o SortedSeq(S \ {least})

\* NaiveBayesClassifier::NaiveBayesClassifier(double alpha)
NaiveBayesClassifierCtor(alpha) ==
    [alpha_ |-> IF alpha <= 0 THEN 1 ELSE alpha,
     vocabulary_size_ |-> 0, total_docs_trained_ |-> 0,
     classes_ |-> <<>>, class_priors_ |-> <<>>, log_likelihoods_ |-> <<>>,
     total_words_in_class_ |-> <<>>, default_log_likelihood_ |-> <<>>]

\* Mutant: the empty training set is not rejected
NBCTrainRejects_NoEmptyCheck(features, labels, vocab_size) ==
    \/ Len(features) # Len(labels)
    \/ vocab_size = 0

\* The two checks of lines 24-29, made after lines 22-23 stored the arguments
NBCTrainRejects(features, labels, vocab_size) ==
    \/ Len(features) = 0
    \/ Len(features) # Len(labels)
    \/ vocab_size = 0

\* Step 2, lines 50-62: word_counts_per_class[label][word_index] and
\* total_words_in_class_[label] after documents k..; only counts > 0 are added
RECURSIVE NBCCountDoc(_, _, _, _)
NBCCountDoc(acc, vec, label, wi) ==
    IF wi > Len(vec) THEN acc
    ELSE NBCCountDoc(
            IF vec[wi] > 0
            THEN [wc |-> (label :> ((wi :> (At0(MapAt(acc.wc, label), wi) + vec[wi]))
                                    @@ MapAt(acc.wc, label)))
                         @@ acc.wc,
                  tw |-> (label :> (acc.tw[label] + vec[wi])) @@ acc.tw]
            ELSE acc,
            vec, label, wi + 1)

RECURSIVE NBCCount(_, _, _, _)
NBCCount(acc, features, labels, k) ==
    IF k > Len(features) THEN acc
    ELSE NBCCount(NBCCountDoc(acc, features[k], labels[k], 1), features, labels, k + 1)

\* class_counts[cls] of Step 1
NBCClassCount(labels, cls) == Cardinality({k \in DOMAIN labels : labels[k] = cls})

\* Lines 32-92 of train, for arguments the checks accept
NBCTrainBody(c, features, labels, vocab_size) ==
    LET unique_classes == {labels[k] : k \in DOMAIN labels}
        total == Len(features)
        zeroed == [cls \in unique_classes |-> 0] @@ c.total_words_in_class_
        acc == NBCCount([wc |-> <<>>, tw |-> zeroed], features, labels, 1)
        class_denominator == [cls \in unique_classes |-> acc.tw[cls] + c.alpha_ * vocab_size]
    IN  [alpha_ |-> c.alpha_,
         vocabulary_size_ |-> vocab_size,
         total_docs_trained_ |-> total,
         classes_ |-> SortedSeq(unique_classes),
         class_priors_ |->
            [cls \in unique_classes |-> LogQuot(NBCClassCount(labels, cls), total)]
            @@ c.class_priors_,
         total_words_in_class_ |-> acc.tw,
         default_log_likelihood_ |->
            [cls \in unique_classes |-> LogQuot(c.alpha_, class_denominator[cls])]
            @@ c.default_log_likelihood_,
         log_likelihoods_ |->
            [cls \in unique_classes |->
               IF cls \in DOMAIN acc.wc
               THEN [wi \in DOMAIN acc.wc[cls] |->
                       LogQuot(acc.wc[cls][wi] + c.alpha_, class_denominator[cls])]
               ELSE <<>>]
            @@ c.log_likelihoods_]

\* void NaiveBayesClassifier::train(features, labels, vocab_size): the object
\* after the call, whether it returned or threw
NBCTrain(c, features, labels, vocab_size) ==
    IF NBCTrainRejects(features, labels, vocab_size)
    THEN [c EXCEPT !.vocabulary_size_ = vocab_size, !.total_docs_trained_ = Len(features)]
    ELSE NBCTrainBody(c, features, labels, vocab_size)

\* Mutant: the per-class default is used for every index
NBCLookup_AlwaysDefault(c, cls, wi) == c.default_log_likelihood_[cls]

\* Lines 122-137: the likelihood predict uses for (cls, word_index)
NBCLookup(c, cls, wi) ==
    IF cls \in DOMAIN c.log_likelihoods_ /\ wi \in DOMAIN c.log_likelihoods_[cls]
    THEN c.log_likelihoods_[cls][wi]
    ELSE c.default_log_likelihood_[cls]

RECURSIVE NBCLogProbFrom(_, _, _, _, _)
NBCLogProbFrom(c, cls, vec, wi, logProb) ==
    IF wi > Len(vec) THEN logProb
    ELSE NBCLogProbFrom(c, cls, vec, wi + 1,
            IF vec[wi] > 0
            THEN LogAdd(logProb, LogScale(vec[wi], NBCLookup(c, cls, wi)))
            ELSE logProb)

\* current_log_prob of one class, lines 113-140
NBCLogProb(c, cls, vec) == NBCLogProbFrom(c, cls, vec, 1, c.class_priors_[cls])

\* Mutant: a later class with an equal score replaces the best class
NBCBetter_OrEqual(current_log_prob, max_log_prob) ==
    LogGt(current_log_prob, max_log_prob)
    \/ (current_log_prob.k # "nan" /\ current_log_prob = max_log_prob)

\* The comparison of line 143
NBCBetter(current_log_prob, max_log_prob) == LogGt(current_log_prob, max_log_prob)

\* The loop of lines 111-147 from position k of classes_
RECURSIVE NBCPredictLoop(_, _, _, _, _)
NBCPredictLoop(c, vec, k, max_log_prob, best_class) ==
    IF k > Len(c.classes_) THEN best_class
    ELSE LET current_log_prob == NBCLogProb(c, c.classes_[k], vec)
         IN  IF NBCBetter(current_log_prob, max_log_prob)
             THEN NBCPredictLoop(c, vec, k + 1, current_log_prob, c.classes_[k])
             ELSE NBCPredictLoop(c, vec, k + 1, max_log_prob, best_class)

\* Mutant: the engine counts as trained once a vocabulary size is stored
NBCNotTrained_ByVocabulary(c) == c.vocabulary_size_ = 0

\* The check of line 98
NBCNotTrained(c) == c.classes_ = <<>>

\* std::string NaiveBayesClassifier::predict(feature_vec) const.
\* ret is the returned label ("" when the call throws), err names the
\* std::runtime_error thrown.
NBCPredict(c, vec) ==
    IF NBCNotTrained(c) THEN [ret |-> "", err |-> "NotTrained"]
    ELSE IF Len(vec) # c.vocabulary_size_ THEN [ret |-> "", err |-> "DimensionMismatch"]
    ELSE LET best_class == NBCPredictLoop(c, vec, 1, NInf, "")
         IN  [ret |-> IF best_class = "" /\ c.classes_ # <<>> THEN c.classes_[1] ELSE best_class,
              err |-> "none"]

\* ------------------------------------- FeatureExtractor (feature_extractor)
\* A document is modelled by the token sequence Preprocessor::preprocess
\* returns for its text (a const function of the text).
Tokens == {"a", "b"}
Docs == SeqsUpTo(Tokens, MaxDocLen)
Corpora == SeqsUpTo(Docs, MaxCorpus)
MinFrequencies == 1..MaxMinFrequency
MaxVocabSizes == 0..MaxVocabCap
Methods == {"BAG_OF_WORDS", "TF_IDF"}

\* The elements of a sequence
Range(s) == {s[i] : i \in DOMAIN s}

\* FeatureExtractor::FeatureExtractor(preprocessor, method)
FECtor(method) ==
    [method |-> method, vocabulary |-> <<>>, documentFrequencies |-> <<>>, documentCount |-> 0]

\* Lines 36-39: wordFrequencies after the tokens of one document from position k
RECURSIVE FECountTokens(_, _, _)
FECountTokens(wordFrequencies, tokens, k) ==
    IF k > Len(tokens) THEN wordFrequencies
    ELSE FECountTokens((tokens[k] :> (At0(wordFrequencies, tokens[k]) + 1)) @@ wordFrequencies,
                       tokens, k + 1)

\* Lines 42-44: documentOccurrences after one document with the given
\* uniqueWordsInDoc (each word of the set is counted once)
FECountDocument(documentOccurrences, uniqueWordsInDoc) ==
    [w \in DOMAIN documentOccurrences \cup uniqueWordsInDoc |->
        At0(documentOccurrences, w) + (IF w \in uniqueWordsInDoc THEN 1 ELSE 0)]

\* The first pass, lines 28-45, from document k
RECURSIVE FEFirstPass(_, _, _)
FEFirstPass(acc, textData, k) ==
    IF k > Len(textData) THEN acc
    ELSE FEFirstPass([wordFrequencies |-> FECountTokens(acc.wordFrequencies, textData[k], 1),
                      documentOccurrences |->
                          FECountDocument(acc.documentOccurrences, Range(textData[k]))],
                     textData, k + 1)

\* Mutant: a word whose frequency equals minFrequency is dropped
FEFiltered_Strict(wordFrequencies, minFrequency) ==
    {w \in DOMAIN wordFrequencies : wordFrequencies[w] > minFrequency}

\* Lines 48-53: the words that pass the minimum frequency
FEFiltered(wordFrequencies, minFrequency) ==
    {w \in DOMAIN wordFrequencies : wordFrequencies[w] >= minFrequency}

\* Lines 49-57: filteredWords after std::sort.  The words are collected in
\* the iteration order of an unordered_map and std::sort is not stable, so
\* the result is any arrangement in which no later element compares greater
\* (a.second > b.second) than an earlier one.
FESortedWords(wordFrequencies, minFrequency) ==
    {p \in Perms(FEFiltered(wordFrequencies, minFrequency)) :
        \A i, j \in DOMAIN p : i < j => ~(wordFrequencies[p[j]] > wordFrequencies[p[i]])}

\* Lines 60-62: filteredWords.resize(maxVocabSize)
FELimit(filteredWords, maxVocabSize) ==
    IF maxVocabSize > 0 /\ Len(filteredWords) > maxVocabSize
    THEN SubSeq(filteredWords, 1, maxVocabSize)
    ELSE filteredWords

\* Lines 65-69: vocabulary[word] = index++ (indices count from 0)
FEVocabularyOf(filteredWords) ==
    [w \in Range(filteredWords) |-> (CHOOSE i \in DOMAIN filteredWords : filteredWords[i] = w) - 1]

\* Mutant: the elements documentFrequencies already has are not overwritten
FEDocumentFrequencies_KeepOld(old, vocabulary, documentOccurrences) ==
    [i \in 1..Cardinality(DOMAIN vocabulary) |->
        IF i <= Len(old) THEN old[i]
        ELSE documentOccurrences[CHOOSE w \in DOMAIN vocabulary : vocabulary[w] = i - 1]]

\* Lines 72-80: documentFrequencies.resize(vocabulary.size(), 0.0) keeps the
\* elements it already has; the loop then stores the occurrences of each word
FEDocumentFrequencies(old, vocabulary, documentOccurrences) ==
    [i \in 1..Cardinality(DOMAIN vocabulary) |->
        IF \E w \in DOMAIN vocabulary : vocabulary[w] = i - 1 /\ w \in DOMAIN documentOccurrences
        THEN documentOccurrences[CHOOSE w \in DOMAIN vocabulary : vocabulary[w] = i - 1]
        ELSE IF i <= Len(old) THEN old[i] ELSE 0]

\* void FeatureExtractor::buildVocabulary(textData, minFrequency, maxVocabSize)
\* with sorted the outcome of std::sort
FEBuildVocabulary(e, textData, minFrequency, maxVocabSize, sorted) ==
    LET pass == FEFirstPass([wordFrequencies |-> <<>>, documentOccurrences |-> <<>>], textData, 1)
        vocabulary == FEVocabularyOf(FELimit(sorted, maxVocabSize))
    IN  [method |-> e.method,
         vocabulary |-> vocabulary,
         documentFrequencies |->
             IF e.method = "TF_IDF"
             THEN FEDocumentFrequencies(e.documentFrequencies, vocabulary, pass.documentOccurrences)
             ELSE e.documentFrequencies,
         documentCount |-> Len(textData)]

\* The outcomes of std::sort in buildVocabulary(textData, minFrequency, ...)
FESortOutcomes(textData, minFrequency) ==
    FESortedWords(FEFirstPass([wordFrequencies |-> <<>>, documentOccurrences |-> <<>>],
                              textData, 1).wordFrequencies,
                  minFrequency)

\* Mutant: an entry records the presence of its token, not the count
RECURSIVE FECountFeatures_Presence(_, _, _, _)
FECountFeatures_Presence(features, vocabulary, tokens, k) ==
    IF k > Len(tokens) THEN features
    ELSE FECountFeatures_Presence(
            IF tokens[k] \in DOMAIN vocabulary
            THEN [features EXCEPT ![vocabulary[tokens[k]] + 1] = 1]
            ELSE features,
            vocabulary, tokens, k + 1)

\* Lines 90-98 of extractFeatures: the term counts, from token k
RECURSIVE FECountFeatures(_, _, _, _)
FECountFeatures(features, vocabulary, tokens, k) ==
    IF k > Len(tokens) THEN features
    ELSE FECountFeatures(
            IF tokens[k] \in DOMAIN vocabulary
            THEN [features EXCEPT ![vocabulary[tokens[k]] + 1] = @ + 1]
            ELSE features,
            vocabulary, tokens, k + 1)

\* The double 0.0 as the logarithm of 1
Zero == Fin(1, 1)

\* Mutant: the quotient is inverted, log(df / N)
FECalculateTfIdf_Inverted(e, termFrequency, wordIndex) ==
    IF e.documentCount = 0 \/ wordIndex >= Len(e.documentFrequencies) THEN Zero
    ELSE IF e.documentFrequencies[wordIndex + 1] = 0 THEN Zero
    ELSE LogScale(termFrequency, LogQuot(e.documentFrequencies[wordIndex + 1], e.documentCount))

\* Mutant: a smoothed idf, log((N + 1) / df)
FECalculateTfIdf_Smoothed(e, termFrequency, wordIndex) ==
    IF e.documentCount = 0 \/ wordIndex >= Len(e.documentFrequencies) THEN Zero
    ELSE IF e.documentFrequencies[wordIndex + 1] = 0 THEN Zero
    ELSE LogScale(termFrequency,
                  LogQuot(e.documentCount + 1, e.documentFrequencies[wordIndex + 1]))

\* double FeatureExtractor::calculateTfIdf(termFrequency, wordIndex):
\* tf * log(N / df), held as a logarithm
FECalculateTfIdf(e, termFrequency, wordIndex) ==
    IF e.documentCount = 0 \/ wordIndex >= Len(e.documentFrequencies) THEN Zero
    ELSE IF e.documentFrequencies[wordIndex + 1] = 0 THEN Zero
    ELSE LogScale(termFrequency, LogQuot(e.documentCount, e.documentFrequencies[wordIndex + 1]))

\* std::vector<double> FeatureExtractor::extractFeatures(text) const.
\* In BAG_OF_WORDS mode the entries are the counts; in TF_IDF mode every
\* entry is held as a logarithm (Zero where the count is 0).
FEExtractFeatures(e, tokens) ==
    LET V == Cardinality(DOMAIN e.vocabulary)
        counts == FECountFeatures([i \in 1..V |-> 0], e.vocabulary, tokens, 1)
    IN  IF e.method = "TF_IDF"
        THEN [i \in 1..V |-> IF counts[i] > 0 THEN FECalculateTfIdf(e, counts[i], i - 1) ELSE Zero]
        ELSE counts

\* size_t FeatureExtractor::getVocabularySize() const
FEGetVocabularySize(e) == Cardinality(DOMAIN e.vocabulary)

\* ------------------------------------- FeatureExtractor (FeatureExtractor.h)
\* The object after construction (FeatureExtractor.h lines 57-58)
FXCtor == [vocabulary_ |-> <<>>, vocabulary_size_ |-> 0]

\* Mutant: every token occurrence takes a new index
FXAddToken_NoFind(acc, token) ==
    [vocabulary_ |-> (token :> acc.index) @@ acc.vocabulary_, index |-> acc.index + 1]

\* Lines 13-15: a token that is not in vocabulary_ yet gets the next index
FXAddToken(acc, token) ==
    IF token \notin DOMAIN acc.vocabulary_
    THEN [vocabulary_ |-> (token :> acc.index) @@ acc.vocabulary_, index |-> acc.index + 1]
    ELSE acc

RECURSIVE FXAddDoc(_, _, _)
FXAddDoc(acc, doc_tokens, k) ==
    IF k > Len(doc_tokens) THEN acc
    ELSE FXAddDoc(FXAddToken(acc, doc_tokens[k]), doc_tokens, k + 1)

RECURSIVE FXAddDocs(_, _, _)
FXAddDocs(acc, tokenized_docs, k) ==
    IF k > Len(tokenized_docs) THEN acc
    ELSE FXAddDocs(FXAddDoc(acc, tokenized_docs[k], 1), tokenized_docs, k + 1)

\* void FeatureExtractor::buildVocabulary(tokenized_docs)
FXBuildVocabulary(x, tokenized_docs) ==
    LET acc == FXAddDocs([vocabulary_ |-> <<>>, index |-> 0], tokenized_docs, 1)
    IN  [vocabulary_ |-> acc.vocabulary_,
         vocabulary_size_ |-> Cardinality(DOMAIN acc.vocabulary_)]

\* FeatureVector FeatureExtractor::extractFeatures(tokens) const
FXExtractFeatures(x, tokens) ==
    FECountFeatures([i \in 1..x.vocabulary_size_ |-> 0], x.vocabulary_, tokens, 1)

\* size_t FeatureExtractor::getVocabularySize() const
FXGetVocabularySize(x) == x.vocabulary_size_

\* -------------------------------------------------------------- Evaluator
\* A metric (a double) is held as the reduced fraction n/d.
Rat(n, d) == LET g == Gcd(n, d) IN [n |-> n \div g, d |-> d \div g]
RatAdd(x, y) == Rat(x.n * y.d + y.n * x.d, x.d * y.d)
RatMul(x, y) == Rat(x.n * y.n, x.d * y.d)
\* x / y for y > 0
RatDiv(x, y) == Rat(x.n * y.d, x.d * y.n)
RatZero == Rat(0, 1)
\* std::isnan: no quotient the evaluator forms is 0/0
RatIsNan(x) == x.d = 0

\* The sum of the fractions f[x] over the keys S
RECURSIVE RatSumOver(_, _)
RatSumOver(f, S) ==
    IF S = {} THEN RatZero
    ELSE LET x == CHOOSE y \in S : TRUE IN RatAdd(f[x], RatSumOver(f, S \ {x}))

\* The member metrics is not initialised by the constructor
\* (struct EvaluationMetrics has no default member initialisers)
\* (an indeterminate double is a value that equals no fraction)
Indeterminate == [indeterminate |-> TRUE]
EVUninitialized == [accuracy |-> Indeterminate, precision |-> Indeterminate,
                    recall |-> Indeterminate, f1Score |-> Indeterminate]

\* Evaluator::Evaluator(const Model& model)
EVCtor == [confusionMatrix |-> <<>>, metrics |-> EVUninitialized]

\* Lines 21-25: a row for every true label of the validation data
EVInitMatrix(validationData) == [t \in LabelsOf(validationData) |-> <<>>]

\* Mutant: the cell is addressed as [predicted][true label]
EVCountExample_Transposed(confusionMatrix, label, predicted) ==
    (predicted :> ((label :> (At0(MapAt(confusionMatrix, predicted), label) + 1))
                   @@ MapAt(confusionMatrix, predicted)))
    @@ confusionMatrix

\* Line 30: confusionMatrix[example.label][predicted]++
EVCountExample(confusionMatrix, label, predicted) ==
    (label :> ((predicted :> (At0(MapAt(confusionMatrix, label), predicted) + 1))
               @@ MapAt(confusionMatrix, label)))
    @@ confusionMatrix

\* Lines 28-31 from example k; predicted[k] is model.predict(example.features)
RECURSIVE EVCountAll(_, _, _, _)
EVCountAll(confusionMatrix, validationData, predicted, k) ==
    IF k > Len(validationData) THEN confusionMatrix
    ELSE EVCountAll(EVCountExample(confusionMatrix, validationData[k].label, predicted[k]),
                    validationData, predicted, k + 1)

\* The cells [t][p] the matrix holds
EVCells(confusionMatrix) ==
    {c \in (DOMAIN confusionMatrix) \X SentimentLabel : c[2] \in DOMAIN confusionMatrix[c[1]]}

\* The sum of the cells of a set
EVCellSum(confusionMatrix, cells) ==
    SumOver([c \in cells |-> confusionMatrix[c[1]][c[2]]], cells)

\* double Evaluator::computeAccuracy() const
EVComputeAccuracy(confusionMatrix) ==
    LET correct == EVCellSum(confusionMatrix, {c \in EVCells(confusionMatrix) : c[1] = c[2]})
        total == EVCellSum(confusionMatrix, EVCells(confusionMatrix))
    IN  IF total > 0 THEN Rat(correct, total) ELSE RatZero

\* double Evaluator::computePrecision(label) const
EVComputePrecision(confusionMatrix, label) ==
    LET truePositives ==
            EVCellSum(confusionMatrix,
                      {c \in EVCells(confusionMatrix) : c[2] = label /\ c[1] = label})
        falsePositives ==
            EVCellSum(confusionMatrix,
                      {c \in EVCells(confusionMatrix) : c[2] = label /\ c[1] # label})
    IN  IF truePositives + falsePositives > 0
        THEN Rat(truePositives, truePositives + falsePositives)
        ELSE RatZero

\* double Evaluator::computeRecall(label) const
EVComputeRecall(confusionMatrix, label) ==
    LET truePositives ==
            EVCellSum(confusionMatrix,
                      {c \in EVCells(confusionMatrix) : c[1] = label /\ c[2] = label})
        falseNegatives ==
            EVCellSum(confusionMatrix,
                      {c \in EVCells(confusionMatrix) : c[1] = label /\ c[2] # label})
    IN  IF truePositives + falseNegatives > 0
        THEN Rat(truePositives, truePositives + falseNegatives)
        ELSE RatZero

\* double Evaluator::computeF1(precision, recall) const
EVComputeF1(precision, recall) ==
    IF RatAdd(precision, recall).n > 0
    THEN RatDiv(RatMul(Rat(2, 1), RatMul(precision, recall)), RatAdd(precision, recall))
    ELSE RatZero

\* Lines 40-49: the labels (keys of the matrix) that enter the sums
EVLabelsCounted(confusionMatrix) ==
    {l \in DOMAIN confusionMatrix :
        /\ ~RatIsNan(EVComputePrecision(confusionMatrix, l))
        /\ ~RatIsNan(EVComputeRecall(confusionMatrix, l))}

\* Mutant: the F1 score is the average of the per-label F1 values
EVMetricsOf_PerLabelF1(confusionMatrix) ==
    LET counted == EVLabelsCounted(confusionMatrix)
        labelCount == Cardinality(counted)
        precisionSum == RatSumOver([l \in counted |-> EVComputePrecision(confusionMatrix, l)], counted)
        recallSum == RatSumOver([l \in counted |-> EVComputeRecall(confusionMatrix, l)], counted)
        f1Sum == RatSumOver([l \in counted |->
                               EVComputeF1(EVComputePrecision(confusionMatrix, l),
                                           EVComputeRecall(confusionMatrix, l))], counted)
    IN  [accuracy |-> EVComputeAccuracy(confusionMatrix),
         precision |-> IF labelCount > 0 THEN RatDiv(precisionSum, Rat(labelCount, 1)) ELSE RatZero,
         recall |-> IF labelCount > 0 THEN RatDiv(recallSum, Rat(labelCount, 1)) ELSE RatZero,
         f1Score |-> IF labelCount > 0 THEN RatDiv(f1Sum, Rat(labelCount, 1)) ELSE RatZero]

\* Lines 33-64: the metrics of a matrix
EVMetricsOf(confusionMatrix) ==
    LET counted == EVLabelsCounted(confusionMatrix)
        labelCount == Cardinality(counted)
        precisionSum == RatSumOver([l \in counted |-> EVComputePrecision(confusionMatrix, l)], counted)
        recallSum == RatSumOver([l \in counted |-> EVComputeRecall(confusionMatrix, l)], counted)
        macroAvgPrecision == IF labelCount > 0 THEN RatDiv(precisionSum, Rat(labelCount, 1)) ELSE RatZero
        macroAvgRecall == IF labelCount > 0 THEN RatDiv(recallSum, Rat(labelCount, 1)) ELSE RatZero
    IN  [accuracy |-> EVComputeAccuracy(confusionMatrix),
         precision |-> macroAvgPrecision,
         recall |-> macroAvgRecall,
         f1Score |-> EVComputeF1(macroAvgPrecision, macroAvgRecall)]

\* Mutant: lines 12-15 return the member metrics for an empty set
EVEvaluate_ReturnsStored(e, validationData, predicted) ==
    IF validationData = <<>>
    THEN [obj |-> e, ret |-> e.metrics, predictCalls |-> 0]
    ELSE LET confusionMatrix ==
                 EVCountAll(EVInitMatrix(validationData), validationData, predicted, 1)
             metrics == EVMetricsOf(confusionMatrix)
         IN  [obj |-> [confusionMatrix |-> confusionMatrix, metrics |-> metrics],
              ret |-> metrics,
              predictCalls |-> Len(validationData)]

\* EvaluationMetrics Evaluator::evaluate(validationData): the object after the
\* call (obj), the value returned (ret) and the number of calls of
\* model.predict made (predictCalls)
EVEvaluate(e, validationData, predicted) ==
    IF validationData = <<>>
    THEN [obj |-> e,
          ret |-> [accuracy |-> RatZero, precision |-> RatZero,
                   recall |-> RatZero, f1Score |-> RatZero],
          predictCalls |-> 0]
    ELSE LET confusionMatrix ==
                 EVCountAll(EVInitMatrix(validationData), validationData, predicted, 1)
             metrics == EVMetricsOf(confusionMatrix)
         IN  [obj |-> [confusionMatrix |-> confusionMatrix, metrics |-> metrics],
              ret |-> metrics,
              predictCalls |-> Len(validationData)]

\* evaluate over a model whose predict may throw: answers[k] is the outcome
\* of model.predict(validationData[k].features).  An exception leaves the
\* loop of lines 28-31 at the first example that throws, after the matrix
\* was cleared and initialised and the examples before it were counted; the
\* member metrics is not assigned.
EVEvaluateOn(e, validationData, answers) ==
    LET throwing == {k \in DOMAIN validationData : answers[k].err = "out_of_range"}
        predicted == [k \in DOMAIN validationData |-> answers[k].ret]
        Returned(whole) ==
            [obj |-> whole.obj, ret |-> whole.ret, predictCalls |-> whole.predictCalls,
             err |-> "none"]
    IN  IF throwing = {}
        THEN Returned(EVEvaluate(e, validationData, predicted))
        ELSE LET first == CHOOSE k \in throwing : \A j \in throwing : k <= j
             IN  [obj |-> [confusionMatrix |->
                               EVCountAll(EVInitMatrix(validationData),
                                          SubSeq(validationData, 1, first - 1), predicted, 1),
                           metrics |-> e.metrics],
                  ret |-> <<>>,
                  predictCalls |-> first,
                  err |-> "out_of_range"]

\* ----------------------------------------------------------- Preprocessor
\* A std::string is a sequence of characters; the texts explored are made of
\* the characters of Chars.  The program never calls setlocale, so the
\* character classes are those of the "C" locale.
Chars == {"a", "b", "A", ",", " ", "\t"}
Texts == UNION {[1..n -> Chars] : n \in 0..MaxText}

UpperCase == <<"A", "B", "C", "D", "E", "F", "G", "H", "I", "J", "K", "L", "M",
               "N", "O", "P", "Q", "R", "S", "T", "U", "V", "W", "X", "Y", "Z">>
LowerCase == <<"a", "b", "c", "d", "e", "f", "g", "h", "i", "j", "k", "l", "m",
               "n", "o", "p", "q", "r", "s", "t", "u", "v", "w", "x", "y", "z">>
\* isspace, which both operator>> and the regex class \s use
WhiteSpace == {" ", "\t", "\n", "\f", "\r"}
\* The characters of the bracket expression punctRegex (line 22), but for
\* the double quote, the backslash and the grave accent, which no text
\* explored holds
PunctRegex == {"!", "#", "$", "%", "&", "'", "(", ")", "*", "+", ",", "-", ".", "/",
               ":", ";", "<", "=", ">", "?", "@", "[", "]", "^", "_",
               "{", "|", "}", "~"}

\* ::tolower
ToLower(c) ==
    IF \E i \in DOMAIN UpperCase : UpperCase[i] = c
    THEN LowerCase[CHOOSE i \in DOMAIN UpperCase : UpperCase[i] = c]
    ELSE c

\* The stop words of initializeStopWords that the characters of Chars can
\* spell (lines 68-88; the list holds "a" and no other word over a, b)
DefaultStopWords == {<<"a">>}

\* Preprocessor::Preprocessor(bool useStopWords)
PPCtor(useStopWords) ==
    [useStopWords |-> useStopWords,
     stopWords |-> IF useStopWords THEN DefaultStopWords ELSE {}]

\* void Preprocessor::addStopWords(words)
PPAddStopWords(pp, words) == [pp EXCEPT !.stopWords = @ \cup Range(words)]

\* bool Preprocessor::isStopWord(word) const
PPIsStopWord(pp, word) == word \in pp.stopWords

\* Lines 26-27: regex_replace of every match of \s+ by one space, scanning
\* from position i; a match is a maximal run of white space
RECURSIVE PPCollapseFrom(_, _)
PPCollapseFrom(text, i) ==
    IF i > Len(text) THEN <<>>
    ELSE IF text[i] \in WhiteSpace
         THEN IF i > 1 /\ text[i - 1] \in WhiteSpace
              THEN PPCollapseFrom(text, i + 1)
              ELSE <<" ">> \o PPCollapseFrom(text, i + 1)
    ELSE <<text[i]>> \o PPCollapseFrom(text, i + 1)

\* Line 30: regex_replace of ^\s+ and of \s+$ by the empty string
RECURSIVE PPTrimLeft(_)
PPTrimLeft(text) ==
    IF text # <<>> /\ Head(text) \in WhiteSpace THEN PPTrimLeft(Tail(text)) ELSE text

RECURSIVE PPTrimRight(_)
PPTrimRight(text) ==
    IF text # <<>> /\ text[Len(text)] \in WhiteSpace
    THEN PPTrimRight(SubSeq(text, 1, Len(text) - 1))
    ELSE text

\* Mutant: the trailing white space is kept
PPCleanText_NoRightTrim(text) ==
    LET lowered == [i \in DOMAIN text |-> ToLower(text[i])]
        spaced == [i \in DOMAIN text |-> IF lowered[i] \in PunctRegex THEN " " ELSE lowered[i]]
    IN  PPTrimLeft(PPCollapseFrom(spaced, 1))

\* std::string Preprocessor::cleanText(text) const
PPCleanText(text) ==
    LET lowered == [i \in DOMAIN text |-> ToLower(text[i])]
        spaced == [i \in DOMAIN text |-> IF lowered[i] \in PunctRegex THEN " " ELSE lowered[i]]
    IN  PPTrimRight(PPTrimLeft(PPCollapseFrom(spaced, 1)))

\* iss >> token (line 40) with the stream at position i: white space is
\* skipped, then characters are read up to the next white space or the end.
\* from is the first character of the token (Len(text) + 1 when the stream
\* ends first and the extraction fails), to the position after its last one.
RECURSIVE PPSkipWhile(_, _, _)
PPSkipWhile(text, i, white) ==
    IF i <= Len(text) /\ ((text[i] \in WhiteSpace) = white)
    THEN PPSkipWhile(text, i + 1, white)
    ELSE i

\* Mutant: a stop word ends the loop (break for continue)
RECURSIVE PPTokenizeFrom_Break(_, _, _, _)
PPTokenizeFrom_Break(pp, text, i, tokens) ==
    LET from == PPSkipWhile(text, i, TRUE)
        to == PPSkipWhile(text, from, FALSE)
        token == SubSeq(text, from, to - 1)
    IN  IF from > Len(text) THEN tokens
        ELSE IF pp.useStopWords /\ PPIsStopWord(pp, token)
             THEN tokens
        ELSE PPTokenizeFrom_Break(pp, text, to, Append(tokens, token))

\* The loop of lines 40-47 with the stream at position i
RECURSIVE PPTokenizeFrom(_, _, _, _)
PPTokenizeFrom(pp, text, i, tokens) ==
    LET from == PPSkipWhile(text, i, TRUE)
        to == PPSkipWhile(text, from, FALSE)
        token == SubSeq(text, from, to - 1)
    IN  IF from > Len(text) THEN tokens
        ELSE IF pp.useStopWords /\ PPIsStopWord(pp, token)
             THEN PPTokenizeFrom(pp, text, to, tokens)
        ELSE PPTokenizeFrom(pp, text, to, Append(tokens, token))

\* std::vector<std::string> Preprocessor::tokenize(text) const
PPTokenize(pp, text) == PPTokenizeFrom(pp, text, 1, <<>>)

\* std::vector<std::string> Preprocessor::preprocess(text) const
PPPreprocess(pp, text) == PPTokenize(pp, PPCleanText(text))

\* ------------------------------------------------------ SentimentAnalyzer
\* A text is modelled by the token sequence Preprocessor::preprocess returns
\* for it; utils.h TextData {text, label} is a row of the CSV file.
SATexts ==
    {[text |-> <<"a", "b">>, label |-> "NEGATIVE"], [text |-> <<"b", "b">>, label |-> "POSITIVE"]}
\* The texts handed to predict
SAQueries == {<<"a">>, <<"b", "b">>}
\* DataLoader::getData() after a loadFromCSV that opened its file
SAFiles == SeqsUpTo(SATexts, MaxLoad)
\* sentiment_api.h SentimentConfig: the configurations explored (the default
\* method, smoothing and ratio; trainRatio 0.8 held as the fraction 4/5)
SAConfigs ==
    [featureMethod : {"BAG_OF_WORDS"}, minWordFrequency : MinFrequencies,
     maxVocabularySize : MaxVocabSizes, naiveBayesAlpha : {1},
     trainRatio : {[n |-> 4, d |-> 5]}]

\* SentimentAnalyzer::Impl::Impl(conf): the members of Impl that are not
\* objects of their own.  evaluator tells whether the pointer is non-null;
\* the member metrics has no initialiser.
SACtor(config) ==
    [config |-> config, trainData |-> <<>>, validData |-> <<>>,
     trainFeatures |-> <<>>, validFeatures |-> <<>>,
     metrics |-> EVUninitialized, isTrained |-> FALSE, evaluator |-> FALSE]

\* utils.h trainValidationSplit: trainSize = static_cast<size_t>(size * ratio)
SATrainSize(size, trainRatio) == (size * trainRatio.n) \div trainRatio.d

\* The outcomes of std::shuffle(shuffledData) with a time-seeded engine
SAShuffles(data) ==
    {[k \in DOMAIN data |-> data[p[k]]] : p \in Perms(DOMAIN data)}

\* bool SentimentAnalyzer::loadTrainingData(...) when loadFromCSV returned
\* true, with shuffled the outcome of the shuffle in trainValidationSplit
SALoadTrainingData(s, shuffled) ==
    LET trainSize == SATrainSize(Len(shuffled), s.config.trainRatio)
    IN  [s EXCEPT !.trainData = SubSeq(shuffled, 1, trainSize),
                  !.validData = SubSeq(shuffled, trainSize + 1, Len(shuffled))]

\* The texts of a batch, as buildVocabulary reads them
SATextsOf(textDataBatch) == [k \in DOMAIN textDataBatch |-> textDataBatch[k].text]

\* std::vector<FeatureVector> FeatureExtractor::batchTransform(batch) const
SABatchTransform(e, textDataBatch) ==
    [k \in DOMAIN textDataBatch |->
        [features |-> FEExtractFeatures(e, textDataBatch[k].text),
         label |-> textDataBatch[k].label]]

\* Lines 78-85 of train: the extractor after buildVocabulary, with sorted the
\* outcome of its std::sort
SATrainExtractor(s, e, sorted) ==
    FEBuildVocabulary(e, SATextsOf(s.trainData), s.config.minWordFrequency,
                      s.config.maxVocabularySize, sorted)

\* Mutant: the validation vectors are extracted before the vocabulary is built
SATrain_StaleValidation(s, e, m, sorted, order) ==
    IF s.trainData = <<>>
    THEN [sa |-> s, fe |-> e, nb |-> m, ret |-> FALSE]
    ELSE LET built == SATrainExtractor(s, e, sorted)
             trainFeatures == SABatchTransform(built, s.trainData)
         IN  [sa |-> [s EXCEPT !.trainFeatures = trainFeatures,
                               !.validFeatures = SABatchTransform(e, s.validData),
                               !.isTrained = NBTrainReturn(trainFeatures)],
              fe |-> built,
              nb |-> NBTrain(m, trainFeatures, order),
              ret |-> NBTrainReturn(trainFeatures)]

\* Mutant: train does not test for an empty training set
SATrain_NoEmptyCheck(s, e, m, sorted, order) ==
    LET built == SATrainExtractor(s, e, sorted)
        trainFeatures == SABatchTransform(built, s.trainData)
    IN  [sa |-> [s EXCEPT !.trainFeatures = trainFeatures,
                          !.validFeatures = SABatchTransform(built, s.validData),
                          !.isTrained = NBTrainReturn(trainFeatures)],
         fe |-> built,
         nb |-> NBTrain(m, trainFeatures, order),
         ret |-> NBTrainReturn(trainFeatures)]

\* bool SentimentAnalyzer::train(): the members (sa), the extractor (fe) and
\* the model (nb) after the call and the value returned (ret); sorted is
\* the outcome of std::sort in buildVocabulary and order the iteration order
\* of the model's classPriors after NaiveBayes::train
SATrain(s, e, m, sorted, order) ==
    IF s.trainData = <<>>
    THEN [sa |-> s, fe |-> e, nb |-> m, ret |-> FALSE]
    ELSE LET built == SATrainExtractor(s, e, sorted)
             trainFeatures == SABatchTransform(built, s.trainData)
         IN  [sa |-> [s EXCEPT !.trainFeatures = trainFeatures,
                               !.validFeatures = SABatchTransform(built, s.validData),
                               !.isTrained = NBTrainReturn(trainFeatures)],
              fe |-> built,
              nb |-> NBTrain(m, trainFeatures, order),
              ret |-> NBTrainReturn(trainFeatures)]

\* EvaluationMetrics{}: every field value-initialised
SANoMetrics ==
    [accuracy |-> RatZero, precision |-> RatZero, recall |-> RatZero, f1Score |-> RatZero]

\* EvaluationMetrics SentimentAnalyzer::evaluate(): the members (sa) and the
\* Evaluator (ev) after the call, the value returned (ret), whether an
\* exception left the call (err) and the outcomes of the calls of
\* model.predict it made (paths)
SAEvaluate(s, evaluator, m) ==
    IF ~s.isTrained
    THEN [sa |-> s, ev |-> evaluator, ret |-> SANoMetrics, err |-> "none", paths |-> {}]
    ELSE LET e == IF s.evaluator THEN evaluator ELSE EVCtor
             After(answers, done) ==
                 [sa |-> [s EXCEPT !.evaluator = TRUE,
                                   !.metrics = IF done.err = "none" THEN done.ret ELSE @],
                  ev |-> done.obj,
                  ret |-> done.ret,
                  err |-> done.err,
                  paths |-> {answers[k].err : k \in 1..done.predictCalls}]
             Evaluated(answers) == After(answers, EVEvaluateOn(e, s.validFeatures, answers))
         IN  Evaluated([k \in DOMAIN s.validFeatures |->
                           NBPredict(m, s.validFeatures[k].features)])

\* SentimentLabel SentimentAnalyzer::predict(text) const: the label returned
\* (ret) and the path taken (err)
SAPredict(s, e, m, tokens) ==
    IF ~s.isTrained THEN [ret |-> "UNKNOWN", err |-> "none"]
    ELSE NBPredict(m, FEExtractFeatures(e, tokens))

\* bool SentimentAnalyzer::saveModel(filePath) const
SASaveModel(s) == IF ~s.isTrained THEN FALSE ELSE FALSE

\* SentimentAnalyzer::getConfusionMatrix() const
SAGetConfusionMatrix(s, evaluator) ==
    IF ~s.evaluator THEN <<>> ELSE evaluator.confusionMatrix

\* ------------------------------------------------------------------ state
\* sut       which engine this run constructs and drives
\* nb        the fields of the NaiveBayes object
\* nbc       the fields of the NaiveBayesClassifier object
\* ctorAlpha the alpha handed to the constructor            (history)
\* hist      the input of the latest train call that succeeded (history,
\*           kept in the runs of the engines alone)
\* call      the latest call: its kind, outcome and a summary of its input
\*           (history)
\* before    the engine object as the latest call found it when that call
\*           failed, and as the call left it otherwise (history)
\* trains    the number of train calls made so far, at most MaxTrains
VARIABLES sut, nb, nbc, ctorAlpha, hist, call, before, trains
\* fe        the fields of the FeatureExtractor object of feature_extractor.h
\* fx        the fields of the FeatureExtractor object of FeatureExtractor.h
\* feIn      the arguments of the latest buildVocabulary call        (history)
\* fePrev    the vocabulary the call before the latest one built, kept when
\*           both calls had the same arguments                       (history)
\* feCall    the latest extractor call and what it returned          (history)
VARIABLES fe, fx, feIn, fePrev, feCall
\* ev        the fields of the Evaluator object
\* evIn      the validation data of the latest evaluate call, what the model
\*           predicts for each example and the number of calls of
\*           model.predict the evaluate call made                    (history)
\* evCall    the latest Evaluator call and what it returned          (history)
VARIABLES ev, evIn, evCall
\* asked     the first predict call since the latest train call: its vector,
\*           its outcome, and the kinds of call made since (history,
\*           kept in the runs of the evaluator over a NaiveBayes model)
VARIABLES asked
\* pp        the fields of the Preprocessor object
\* ppText    the text the calls of this run are handed
\* ppCall    the latest Preprocessor call and what it returned       (history)
VARIABLES pp, ppText, ppCall
\* sa        the members of SentimentAnalyzer::Impl that are not objects of
\*           their own (featureExtractor, model, *evaluator are fe, nb, ev)
\* saCall    the latest SentimentAnalyzer call: what it returned, the paths
\*           model.predict took in it, isTrained and the emptiness of
\*           trainData as the call found them, for a train call the
\*           vocabulary as it found it, and the kinds of call made while
\*           no train call had returned true                        (history)
\* saTrained whether some train call has returned true               (history)
VARIABLES sa, saCall, saTrained
apiVars == <<sa, saCall, saTrained>>
ppVars == <<pp, ppText, ppCall>>
evVars == <<ev, evIn, evCall>>
engineVars == <<nb, nbc, ctorAlpha, hist, call, before, trains, asked>>
feVars == <<fe, fx, feIn, fePrev, feCall>>
vars == <<sut, nb, nbc, ctorAlpha, hist, call, before, trains, fe, fx, feIn, fePrev, feCall,
          ev, evIn, evCall, asked, pp, ppText, ppCall, sa, saCall, saTrained>>

\* History records of the extractors
NoBuild == [valid |-> FALSE, textData |-> <<>>, minFrequency |-> 0, maxVocabSize |-> 0]
NoPrev == [same |-> FALSE, vocabulary |-> <<>>]
FECallOf(op, tokens, out) == [op |-> op, tokens |-> tokens, out |-> out]

NotAsked == [valid |-> FALSE, features |-> <<>>, ret |-> "", err |-> "", between |-> {}]

NoEval == [valid |-> FALSE, validationData |-> <<>>, predicted |-> <<>>, predictCalls |-> 0]
EVCallOf(op, ret) == [op |-> op, ret |-> ret]

PPCallOf(op, out) == [op |-> op, out |-> out]

\* No SentimentAnalyzer is constructed in the runs of its parts
APIUnused ==
    /\ sa = SACtor([featureMethod |-> "BAG_OF_WORDS", minWordFrequency |-> 2,
                    maxVocabularySize |-> 5000, naiveBayesAlpha |-> 1,
                    trainRatio |-> [n |-> 4, d |-> 5]])
    /\ saCall = [op |-> "ctor"]
    /\ saTrained = FALSE

\* No preprocessor is driven in the runs of the other objects
PPUnused ==
    /\ pp = PPCtor(FALSE)
    /\ ppText = <<>>
    /\ ppCall = PPCallOf("ctor", <<>>)

\* No evaluator is constructed in the runs of the engines and extractors
EVUnused ==
    /\ ev = EVCtor
    /\ evIn = NoEval
    /\ evCall = EVCallOf("ctor", <<>>)

\* No extractor is constructed in the runs of the engines
FEUnused ==
    /\ fe = FECtor("BAG_OF_WORDS")
    /\ fx = FXCtor
    /\ feIn = NoBuild
    /\ fePrev = NoPrev
    /\ feCall = FECallOf("ctor", <<>>, <<>>)

NoHist == [valid |-> FALSE, V |-> 0, data |-> <<>>]
NoInput == [empty |-> FALSE, countMismatch |-> FALSE, zeroVocab |-> FALSE, ragged |-> FALSE]
Call(op, ret, err, wasTrained, in) ==
    [op |-> op, ret |-> ret, err |-> err, wasTrained |-> wasTrained, in |-> in]

\* The process is gone after undefined behaviour ended it
Alive == call.err # "crash"

\* Training sets handed to NaiveBayes::train
NBData == SeqsUpTo(Examples, MaxDocs)

\* Summary of a NaiveBayes training set: V is the length of the first example
NBInput(data) ==
    [empty |-> data = <<>>,
     countMismatch |-> FALSE,
     zeroVocab |-> data # <<>> /\ \A k \in DOMAIN data : Len(data[k].features) = 0,
     ragged |-> \E k \in DOMAIN data : Len(data[k].features) # Len(data[1].features)]

\* The orders in which classPriors may be iterated after train(data): the
\* order is kept when no key is inserted, and is any order of the keys after
\* an insertion (which may rehash).
NBOrdersAfter(data) ==
    IF LabelsOf(data) \subseteq DOMAIN nb.classPriors
    THEN {nb.order}
    ELSE Perms(NBPriorKeysAfter(nb, data))

NB_TrainCall(data, order) ==
    /\ nb' = NBTrain(nb, data, order)
    /\ hist' = IF NBTrainReturn(data)
               THEN [valid |-> TRUE, V |-> Len(data[1].features), data |-> data]
               ELSE hist
    /\ call' = Call("train", IF NBTrainReturn(data) THEN "true" ELSE "false",
                    IF NBTrainReturn(data) THEN "none" ELSE "InvalidInput",
                    nb.trained, NBInput(data))
    /\ before' = IF NBTrainReturn(data) THEN nb' ELSE nb

\* The out-of-bounds write of line 39 ends the process
NB_TrainCrash(data) ==
    /\ NBOutOfBounds(data)
    /\ call' = Call("train", "", "crash", nb.trained, NBInput(data))
    /\ before' = nb
    /\ UNCHANGED <<nb, hist>>

NB_Train ==
    /\ sut = "NaiveBayes"
    /\ Alive
    /\ trains < MaxTrains
    /\ trains' = trains + 1
    /\ \E data \in NBData :
          \/ \E order \in NBOrdersAfter(data) : NB_TrainCall(data, order)
          \/ NB_TrainCrash(data)
    /\ UNCHANGED <<sut, nbc, ctorAlpha, asked>>
    /\ UNCHANGED feVars
    /\ UNCHANGED evVars
    /\ UNCHANGED ppVars
    /\ UNCHANGED apiVars

NB_Predict ==
    /\ sut = "NaiveBayes"
    /\ Alive
    /\ \E features \in Vectors :
          call' = Call("predict", NBPredict(nb, features).ret, NBPredict(nb, features).err,
                       nb.trained, NoInput)
    /\ before' = nb
    /\ UNCHANGED <<sut, nb, nbc, ctorAlpha, hist, trains, asked>>
    /\ UNCHANGED feVars
    /\ UNCHANGED evVars
    /\ UNCHANGED ppVars
    /\ UNCHANGED apiVars

\* Arguments handed to NaiveBayesClassifier::train
\* (documents with at least one vocabulary word)
NBCTrainVectors == {v \in Vectors : SeqSum(v) > 0}
NBCFeatures == SeqsUpTo(NBCTrainVectors, MaxDocs)
NBCLabelLists == SeqsUpTo(NBCLabels, MaxDocs)
NBCVocabSizes == 0..MaxLen

NBCInput(features, labels, vocab_size) ==
    [empty |-> features = <<>>,
     countMismatch |-> Len(features) # Len(labels),
     zeroVocab |-> vocab_size = 0,
     ragged |-> \E k \in DOMAIN features : Len(features[k]) # vocab_size]

\* The training set as a sequence of labelled examples
Zip(features, labels) ==
    [k \in DOMAIN features |-> [features |-> features[k], label |-> labels[k]]]

NBC_Train ==
    /\ sut = "NaiveBayesClassifier"
    /\ Alive
    /\ trains < MaxTrains
    /\ trains' = trains + 1
    /\ \E features \in NBCFeatures, labels \in NBCLabelLists, vocab_size \in NBCVocabSizes :
          /\ nbc' = NBCTrain(nbc, features, labels, vocab_size)
          /\ hist' = IF NBCTrainRejects(features, labels, vocab_size)
                     THEN hist
                     ELSE [valid |-> TRUE, V |-> vocab_size, data |-> Zip(features, labels)]
          /\ call' = Call("train", "",
                          IF NBCTrainRejects(features, labels, vocab_size)
                          THEN "InvalidInput" ELSE "none",
                          ~NBCNotTrained(nbc), NBCInput(features, labels, vocab_size))
          /\ before' = IF NBCTrainRejects(features, labels, vocab_size) THEN nbc ELSE nbc'
    /\ UNCHANGED <<sut, nb, ctorAlpha, asked>>
    /\ UNCHANGED feVars
    /\ UNCHANGED evVars
    /\ UNCHANGED ppVars
    /\ UNCHANGED apiVars

NBC_Predict ==
    /\ sut = "NaiveBayesClassifier"
    /\ Alive
    /\ \E vec \in Vectors :
          call' = Call("predict", NBCPredict(nbc, vec).ret, NBCPredict(nbc, vec).err,
                       ~NBCNotTrained(nbc), NoInput)
    /\ before' = nbc
    /\ UNCHANGED <<sut, nb, nbc, ctorAlpha, hist, trains, asked>>
    /\ UNCHANGED feVars
    /\ UNCHANGED evVars
    /\ UNCHANGED ppVars
    /\ UNCHANGED apiVars

\* One engine is constructed with some alpha; the other class is not used.
Init ==
    /\ \/ sut = "NaiveBayesClassifier"
       \/ sut = "NaiveBayes"
    /\ ctorAlpha \in Alphas
    /\ nb = NaiveBayesCtor(ctorAlpha)
    /\ nbc = NaiveBayesClassifierCtor(ctorAlpha)
    /\ before = IF sut = "NaiveBayes" THEN nb ELSE nbc
    /\ hist = NoHist
    /\ call = Call("ctor", "", "none", FALSE, NoInput)
    /\ trains = 0
    /\ asked = NotAsked
    /\ FEUnused
    /\ EVUnused
    /\ PPUnused
    /\ APIUnused

Next == NB_Train \/ NB_Predict \/ NBC_Train \/ NBC_Predict

Spec == Init /\ [][Next]_vars

\* ------------------------------------------------ the extractors' runs
\* No engine is used in the runs of the extractors
EngineUnused ==
    /\ ctorAlpha = 1
    /\ nb = NaiveBayesCtor(1)
    /\ nbc = NaiveBayesClassifierCtor(1)
    /\ before = nbc
    /\ hist = NoHist
    /\ call = Call("ctor", "", "none", FALSE, NoInput)
    /\ trains = 0
    /\ asked = NotAsked

BuildInput(textData, minFrequency, maxVocabSize) ==
    [valid |-> TRUE, textData |-> textData, minFrequency |-> minFrequency,
     maxVocabSize |-> maxVocabSize]

FE_BuildVocabulary ==
    /\ sut = "feature_extractor"
    /\ \E textData \in Corpora, minFrequency \in MinFrequencies, maxVocabSize \in MaxVocabSizes :
          \E sorted \in FESortOutcomes(textData, minFrequency) :
             /\ fe' = FEBuildVocabulary(fe, textData, minFrequency, maxVocabSize, sorted)
             /\ feIn' = BuildInput(textData, minFrequency, maxVocabSize)
             /\ fePrev' = IF feIn = feIn' THEN [same |-> TRUE, vocabulary |-> fe.vocabulary]
                          ELSE NoPrev
    /\ feCall' = FECallOf("buildVocabulary", <<>>, <<>>)
    /\ UNCHANGED <<sut, fx>>
    /\ UNCHANGED engineVars
    /\ UNCHANGED evVars
    /\ UNCHANGED ppVars
    /\ UNCHANGED apiVars

FE_ExtractFeatures ==
    /\ sut = "feature_extractor"
    /\ \E tokens \in Docs :
          feCall' = FECallOf("extractFeatures", tokens, FEExtractFeatures(fe, tokens))
    /\ UNCHANGED <<sut, fe, fx, feIn, fePrev>>
    /\ UNCHANGED engineVars
    /\ UNCHANGED evVars
    /\ UNCHANGED ppVars
    /\ UNCHANGED apiVars

FX_BuildVocabulary ==
    /\ sut = "FeatureExtractor"
    /\ \E tokenized_docs \in Corpora :
          /\ fx' = FXBuildVocabulary(fx, tokenized_docs)
          /\ feIn' = BuildInput(tokenized_docs, 0, 0)
          /\ fePrev' = IF feIn = feIn' THEN [same |-> TRUE, vocabulary |-> fx.vocabulary_]
                       ELSE NoPrev
    /\ feCall' = FECallOf("buildVocabulary", <<>>, <<>>)
    /\ UNCHANGED <<sut, fe>>
    /\ UNCHANGED engineVars
    /\ UNCHANGED evVars
    /\ UNCHANGED ppVars
    /\ UNCHANGED apiVars

FX_ExtractFeatures ==
    /\ sut = "FeatureExtractor"
    /\ \E tokens \in Docs :
          feCall' = FECallOf("extractFeatures", tokens, FXExtractFeatures(fx, tokens))
    /\ UNCHANGED <<sut, fe, fx, feIn, fePrev>>
    /\ UNCHANGED engineVars
    /\ UNCHANGED evVars
    /\ UNCHANGED ppVars
    /\ UNCHANGED apiVars

\* One extractor is constructed; feature_extractor.h takes its method then.
InitFE ==
    /\ \/ sut = "feature_extractor" /\ \E method \in Methods : fe = FECtor(method)
       \/ sut = "FeatureExtractor" /\ fe = FECtor("BAG_OF_WORDS")
    /\ fx = FXCtor
    /\ feIn = NoBuild
    /\ fePrev = NoPrev
    /\ feCall = FECallOf("ctor", <<>>, <<>>)
    /\ EngineUnused
    /\ EVUnused
    /\ PPUnused
    /\ APIUnused

NextFE == FE_BuildVocabulary \/ FE_ExtractFeatures \/ FX_BuildVocabulary \/ FX_ExtractFeatures

SpecFE == InitFE /\ [][NextFE]_vars

\* ------------------------------------------------- the evaluator's runs
\* The model behind the Evaluator's reference is any implementation of the
\* Model interface: its predict is a function of the feature vector (an
\* untrained NaiveBayes answers UNKNOWN to everything).
EvalFeatures == {<<0>>, <<1>>}
EvalLabels == NBLabels
PredictedLabels == NBLabels \cup {"UNKNOWN"}
EvalExamples == [features : EvalFeatures, label : EvalLabels]
\* Validation sets: all of up to MaxEval examples, and those of three
\* examples whose feature vectors are <<0>>, <<1>>, <<1>>
EvalTriples ==
    {<<[features |-> <<0>>, label |-> a], [features |-> <<1>>, label |-> b],
       [features |-> <<1>>, label |-> c]>> : a \in EvalLabels, b \in EvalLabels, c \in EvalLabels}
EvalData == SeqsUpTo(EvalExamples, MaxEval) \cup EvalTriples
ModelPredicts == [EvalFeatures -> PredictedLabels]

EV_Evaluate ==
    /\ sut = "Evaluator"
    /\ \E validationData \in EvalData, predict \in ModelPredicts :
          LET predicted == [k \in DOMAIN validationData |-> predict[validationData[k].features]]
              done == EVEvaluate(ev, validationData, predicted)
          IN  /\ ev' = done.obj
              /\ evIn' = [valid |-> TRUE, validationData |-> validationData,
                          predicted |-> predicted, predictCalls |-> done.predictCalls]
              /\ evCall' = EVCallOf("evaluate", done.ret)
    /\ UNCHANGED sut
    /\ UNCHANGED engineVars
    /\ UNCHANGED feVars
    /\ UNCHANGED ppVars
    /\ UNCHANGED apiVars

EV_GetConfusionMatrix ==
    /\ sut = "Evaluator"
    /\ evCall' = EVCallOf("getConfusionMatrix", ev.confusionMatrix)
    /\ UNCHANGED <<sut, ev, evIn>>
    /\ UNCHANGED engineVars
    /\ UNCHANGED feVars
    /\ UNCHANGED ppVars
    /\ UNCHANGED apiVars

InitEval ==
    /\ sut = "Evaluator"
    /\ ev = EVCtor
    /\ evIn = NoEval
    /\ evCall = EVCallOf("ctor", <<>>)
    /\ EngineUnused
    /\ FEUnused
    /\ PPUnused
    /\ APIUnused

NextEval == EV_Evaluate \/ EV_GetConfusionMatrix

SpecEval == InitEval /\ [][NextEval]_vars

\* ------------------------------- the runs of an evaluator over a model
\* A NaiveBayes object is constructed and an Evaluator is constructed over it
\* (Evaluator keeps a const Model&); train and predict are called on the
\* model and evaluate on the evaluator, in any order.
MEData == SeqsUpTo(EvalExamples, MaxDocs)
MEValidation == SeqsUpTo(EvalExamples, 1)
MEVectors == EvalFeatures \cup {<<>>}

ME_Train ==
    /\ sut = "Evaluator(NaiveBayes)"
    /\ trains < MaxTrains
    /\ trains' = trains + 1
    /\ \E data \in MEData : \E order \in NBOrdersAfter(data) :
          /\ nb' = NBTrain(nb, data, order)
          /\ call' = Call("train", IF NBTrainReturn(data) THEN "true" ELSE "false",
                          IF NBTrainReturn(data) THEN "none" ELSE "InvalidInput",
                          nb.trained, NBInput(data))
          /\ before' = IF NBTrainReturn(data) THEN nb' ELSE nb
    /\ asked' = NotAsked
    /\ UNCHANGED <<sut, nbc, ctorAlpha, hist>>
    /\ UNCHANGED feVars
    /\ UNCHANGED evVars
    /\ UNCHANGED ppVars
    /\ UNCHANGED apiVars

ME_Predict ==
    /\ sut = "Evaluator(NaiveBayes)"
    /\ \E features \in MEVectors :
          LET answer == NBPredict(nb, features)
          IN  /\ nb' = NBAfterPredict(nb, features)
              /\ call' = Call("predict", answer.ret, answer.err, nb.trained,
                              [features |-> features])
              /\ asked' = IF ~nb.trained THEN asked
                          ELSE IF asked.valid
                               THEN [asked EXCEPT !.between = @ \cup {"predict"}]
                          ELSE [valid |-> TRUE, features |-> features, ret |-> answer.ret,
                                err |-> answer.err, between |-> {}]
    /\ before' = nb
    /\ UNCHANGED <<sut, nbc, ctorAlpha, hist, trains>>
    /\ UNCHANGED feVars
    /\ UNCHANGED evVars
    /\ UNCHANGED ppVars
    /\ UNCHANGED apiVars

ME_Evaluate ==
    /\ sut = "Evaluator(NaiveBayes)"
    /\ \E validationData \in MEValidation :
       \E answers \in {[k \in DOMAIN validationData |->
                            NBPredict(nb, validationData[k].features)]} :
       \E done \in {EVEvaluateOn(ev, validationData, answers)} :
              /\ ev' = done.obj
              /\ evIn' = [valid |-> TRUE, validationData |-> validationData,
                          predicted |-> [k \in DOMAIN validationData |-> answers[k].ret],
                          predictCalls |-> done.predictCalls]
              /\ evCall' = EVCallOf("evaluate", done.ret)
              /\ call' = Call("evaluate", "", done.err, nb.trained, NoInput)
    /\ before' = nb
    /\ asked' = IF asked.valid THEN [asked EXCEPT !.between = @ \cup {"evaluate"}] ELSE asked
    /\ UNCHANGED <<sut, nb, nbc, ctorAlpha, hist, trains>>
    /\ UNCHANGED feVars
    /\ UNCHANGED ppVars
    /\ UNCHANGED apiVars

InitME ==
    /\ sut = "Evaluator(NaiveBayes)"
    /\ ctorAlpha \in Alphas \ {0}
    /\ nb = NaiveBayesCtor(ctorAlpha)
    /\ nbc = NaiveBayesClassifierCtor(ctorAlpha)
    /\ before = nb
    /\ hist = NoHist
    /\ call = Call("ctor", "", "none", FALSE, NoInput)
    /\ trains = 0
    /\ asked = NotAsked
    /\ FEUnused
    /\ EVUnused
    /\ PPUnused
    /\ APIUnused

NextME == ME_Train \/ ME_Predict \/ ME_Evaluate

SpecME == InitME /\ [][NextME]_vars

\* ---------------------------------------------- the preprocessor's runs
\* A Preprocessor is constructed with or without stop-word removal and its
\* member functions are applied to one text.
AddedStopWords == {<<<<"b">>>>}

PP_CleanText ==
    /\ sut = "Preprocessor"
    /\ ppCall' = PPCallOf("cleanText", PPCleanText(ppText))
    /\ UNCHANGED <<sut, pp, ppText>>
    /\ UNCHANGED engineVars
    /\ UNCHANGED feVars
    /\ UNCHANGED evVars
    /\ UNCHANGED apiVars

PP_Tokenize ==
    /\ sut = "Preprocessor"
    /\ ppCall' = PPCallOf("tokenize", PPTokenize(pp, ppText))
    /\ UNCHANGED <<sut, pp, ppText>>
    /\ UNCHANGED engineVars
    /\ UNCHANGED feVars
    /\ UNCHANGED evVars
    /\ UNCHANGED apiVars

PP_Preprocess ==
    /\ sut = "Preprocessor"
    /\ ppCall' = PPCallOf("preprocess", PPPreprocess(pp, ppText))
    /\ UNCHANGED <<sut, pp, ppText>>
    /\ UNCHANGED engineVars
    /\ UNCHANGED feVars
    /\ UNCHANGED evVars
    /\ UNCHANGED apiVars

PP_AddStopWords ==
    /\ sut = "Preprocessor"
    /\ \E words \in AddedStopWords : pp' = PPAddStopWords(pp, words)
    /\ ppCall' = PPCallOf("addStopWords", <<>>)
    /\ UNCHANGED <<sut, ppText>>
    /\ UNCHANGED engineVars
    /\ UNCHANGED feVars
    /\ UNCHANGED evVars
    /\ UNCHANGED apiVars

InitPP ==
    /\ sut = "Preprocessor"
    /\ \E useStopWords \in BOOLEAN : pp = PPCtor(useStopWords)
    /\ ppText \in Texts
    /\ ppCall = PPCallOf("ctor", <<>>)
    /\ EngineUnused
    /\ FEUnused
    /\ EVUnused
    /\ APIUnused

NextPP == PP_CleanText \/ PP_Tokenize \/ PP_Preprocess \/ PP_AddStopWords

SpecPP == InitPP /\ [][NextPP]_vars

\* ------------------------------------------ the runs of a SentimentAnalyzer
\* A SentimentAnalyzer is constructed with one configuration; its members
\* featureExtractor, model and *evaluator are the objects fe, nb and ev.
\* loadTrainingData, train, evaluate, predict, saveModel and
\* getConfusionMatrix are called in any order.
SACallOf(op, ret, err, paths) ==
    [op |-> op, ret |-> ret, err |-> err, paths |-> paths,
     wasTrained |-> sa.isTrained, noData |-> sa.trainData = <<>>,
     vocabulary |-> IF op = "train" THEN fe.vocabulary ELSE <<>>,
     early |-> IF saTrained \/ (op = "train" /\ ret) THEN {} ELSE saCall.early \cup {op}]

SAOthersUnchanged ==
    /\ UNCHANGED <<sut, nbc, ctorAlpha, hist, call, before, trains, asked>>
    /\ UNCHANGED <<fx, feIn, fePrev, feCall, evIn, evCall>>
    /\ UNCHANGED ppVars

SA_LoadTrainingData ==
    /\ sut = "SentimentAnalyzer"
    /\ \/ /\ saCall' = SACallOf("loadTrainingData", FALSE, "none", {})
          /\ UNCHANGED sa
       \/ \E data \in SAFiles : \E shuffled \in SAShuffles(data) :
             /\ sa' = SALoadTrainingData(sa, shuffled)
             /\ saCall' = SACallOf("loadTrainingData", TRUE, "none", {})
    /\ UNCHANGED <<fe, nb, ev, saTrained>>
    /\ SAOthersUnchanged

SA_Train ==
    /\ sut = "SentimentAnalyzer"
    /\ \E sorted \in FESortOutcomes(SATextsOf(sa.trainData), sa.config.minWordFrequency) :
       \E order \in NBOrdersAfter(SABatchTransform(SATrainExtractor(sa, fe, sorted),
                                                   sa.trainData)) :
          LET done == SATrain(sa, fe, nb, sorted, order)
          IN  /\ sa' = done.sa
              /\ fe' = done.fe
              /\ nb' = done.nb
              /\ saCall' = SACallOf("train", done.ret, "none", {})
              /\ saTrained' = (saTrained \/ done.ret)
    /\ UNCHANGED ev
    /\ SAOthersUnchanged

SA_Evaluate ==
    /\ sut = "SentimentAnalyzer"
    /\ \E done \in {SAEvaluate(sa, ev, nb)} :
           /\ sa' = done.sa
           /\ ev' = done.ev
           /\ saCall' = SACallOf("evaluate", done.ret, done.err, done.paths)
    /\ UNCHANGED <<fe, nb, saTrained>>
    /\ SAOthersUnchanged

SA_Predict ==
    /\ sut = "SentimentAnalyzer"
    /\ \E tokens \in SAQueries :
          LET answer == SAPredict(sa, fe, nb, tokens)
          IN  saCall' = SACallOf("predict", answer.ret, IF answer.err = "out_of_range"
                                                         THEN "out_of_range" ELSE "none",
                                 {answer.err})
    /\ UNCHANGED <<sa, fe, nb, ev, saTrained>>
    /\ SAOthersUnchanged

SA_SaveModel ==
    /\ sut = "SentimentAnalyzer"
    /\ saCall' = SACallOf("saveModel", SASaveModel(sa), "none", {})
    /\ UNCHANGED <<sa, fe, nb, ev, saTrained>>
    /\ SAOthersUnchanged

SA_GetConfusionMatrix ==
    /\ sut = "SentimentAnalyzer"
    /\ saCall' = SACallOf("getConfusionMatrix", SAGetConfusionMatrix(sa, ev), "none", {})
    /\ UNCHANGED <<sa, fe, nb, ev, saTrained>>
    /\ SAOthersUnchanged

InitAPI ==
    /\ sut = "SentimentAnalyzer"
    /\ \E config \in SAConfigs :
          /\ sa = SACtor(config)
          /\ fe = FECtor(config.featureMethod)
          /\ nb = NaiveBayesCtor(config.naiveBayesAlpha)
          /\ ctorAlpha = config.naiveBayesAlpha
    /\ saCall = [op |-> "ctor", ret |-> FALSE, err |-> "none", paths |-> {},
                 wasTrained |-> FALSE, noData |-> TRUE, vocabulary |-> <<>>, early |-> {}]
    /\ saTrained = FALSE
    /\ ev = EVCtor
    /\ evIn = NoEval
    /\ evCall = EVCallOf("ctor", <<>>)
    /\ nbc = NaiveBayesClassifierCtor(ctorAlpha)
    /\ before = nb
    /\ hist = NoHist
    /\ call = Call("ctor", "", "none", FALSE, NoInput)
    /\ trains = 0
    /\ asked = NotAsked
    /\ fx = FXCtor
    /\ feIn = NoBuild
    /\ fePrev = NoPrev
    /\ feCall = FECallOf("ctor", <<>>, <<>>)
    /\ PPUnused

NextAPI ==
    \/ SA_LoadTrainingData
    \/ SA_Train
    \/ SA_Evaluate
    \/ SA_Predict
    \/ SA_SaveModel
    \/ SA_GetConfusionMatrix

SpecAPI == InitAPI /\ [][NextAPI]_vars

\* ----------------------------------------------------- reference notions
IsNB == sut = "NaiveBayes"

\* The engine is in its Trained state
Trained == IF IsNB THEN nb.trained ELSE ~NBCNotTrained(nbc)

\* What predict answers in the current state
PredictOf(v) == IF IsNB THEN NBPredict(nb, v) ELSE NBCPredict(nbc, v)

\* What predict answered before the latest call, if that call failed
PredictBefore(v) == IF IsNB THEN NBPredict(before, v) ELSE NBCPredict(before, v)

\* The answer of an engine on which no training ever succeeded
NotTrainedAnswer ==
    IF IsNB THEN [ret |-> "UNKNOWN", err |-> "NotTrained"] ELSE [ret |-> "", err |-> "NotTrained"]

\* The smoothing parameter the engine trains with
AlphaInEffect == IF IsNB THEN nb.alpha ELSE nbc.alpha_

FeaturesOf(data) == [k \in DOMAIN data |-> data[k].features]
LabelSeqOf(data) == [k \in DOMAIN data |-> data[k].label]

\* The answers to predict(v) of a newly constructed engine that only ran
\* train on the latest training set (one answer per admissible hash order)
FreshAnswers(v) ==
    IF IsNB
    THEN {NBPredict(NBTrain(NaiveBayesCtor(ctorAlpha), hist.data, o), v) :
             o \in Perms(LabelsOf(hist.data))}
    ELSE {NBCPredict(NBCTrain(NaiveBayesClassifierCtor(ctorAlpha), FeaturesOf(hist.data),
                              LabelSeqOf(hist.data), hist.V), v)}

\* count(c), W(c, i) and T(c) of the latest training set, by their definitions
RefCount(c) == Cardinality({k \in DOMAIN hist.data : hist.data[k].label = c})

RECURSIVE RefMassFrom(_, _, _)
RefMassFrom(k, c, i) ==
    IF k > Len(hist.data) THEN 0
    ELSE RefMassFrom(k + 1, c, i)
         + (IF hist.data[k].label = c /\ i \in DOMAIN hist.data[k].features
            THEN hist.data[k].features[i] ELSE 0)

RefW(c, i) == RefMassFrom(1, c, i)

RECURSIVE RefTotalFrom(_, _)
RefTotalFrom(k, c) ==
    IF k > Len(hist.data) THEN 0
    ELSE RefTotalFrom(k + 1, c)
         + (IF hist.data[k].label = c THEN SeqSum(hist.data[k].features) ELSE 0)

RefT(c) == RefTotalFrom(1, c)

\* log((W(c,i) + alpha) / (T(c) + alpha * V))
RefLogLikelihood(c, i) == LogQuot(RefW(c, i) + AlphaInEffect, RefT(c) + AlphaInEffect * hist.V)

RECURSIVE RefScoreFrom(_, _, _)
RefScoreFrom(c, v, i) ==
    IF i > Len(v) THEN LogQuot(RefCount(c), Len(hist.data))
    ELSE IF v[i] > 0
         THEN LogAdd(RefScoreFrom(c, v, i + 1), LogScale(v[i], RefLogLikelihood(c, i)))
         ELSE RefScoreFrom(c, v, i + 1)

\* score(c) = prior(c) + sum over i with v[i] > 0 of v[i] * logLikelihood(c, i)
RefScore(c, v) == RefScoreFrom(c, v, 1)

\* x >= y on doubles
LogGe(x, y) == LogGt(x, y) \/ (x.k # "nan" /\ x = y)

\* The classes of the latest training set that attain the maximum score
RefBest(v) ==
    {c \in LabelsOf(hist.data) :
        \A c2 \in LabelsOf(hist.data) : LogGe(RefScore(c, v), RefScore(c2, v))}

\* The position at which class c is first observed in the latest training set
FirstSeen(c) == CHOOSE k \in DOMAIN hist.data :
                    /\ hist.data[k].label = c
                    /\ \A j \in 1..(k - 1) : hist.data[j].label # c

\* The latest call was a train call
TrainCalled == call.op = "train"

\* ------------------------------------------------------------------ claims

\* C1: re-training discards all prior trained state: right after a train call
\* that succeeded, predict answers every vector like a newly constructed
\* engine that only ran train on the same training set.
C1_RetrainEqualsFresh ==
    (TrainCalled /\ call.err = "none") =>
        \A v \in Vectors : PredictOf(v) \in FreshAnswers(v)

\* C2: a train call with vocabulary size 0 (vocab_size = 0, or every feature
\* vector of length 0) fails with InvalidInput and does not turn an untrained
\* engine into a trained one.
C2_ZeroVocabularyRejected ==
    (TrainCalled /\ call.in.zeroVocab) =>
        /\ call.err = "InvalidInput"
        /\ (~call.wasTrained => ~Trained)

\* C3: a train call in which some feature vector's length differs from the
\* vocabulary size V fails with InvalidInput.
C3_RaggedRejected ==
    (TrainCalled /\ call.in.ragged) => call.err = "InvalidInput"

\* C4: a train call on an empty training set (or, for NaiveBayesClassifier,
\* with a number of labels different from the number of vectors) fails, and an
\* engine that was untrained before it answers NotTrained to every predict.
C4_EmptyTrainingFails ==
    (TrainCalled /\ (call.in.empty \/ call.in.countMismatch)) =>
        /\ call.err = "InvalidInput"
        /\ (IsNB => call.ret = "false")
        /\ (~call.wasTrained =>
               /\ ~Trained
               /\ \A v \in Vectors : PredictOf(v) = NotTrainedAnswer)

C4_Witness ==
    /\ TrainCalled
    /\ ~IsNB
    /\ call.in.countMismatch
    /\ ~call.in.empty
    /\ ~call.wasTrained
    /\ nbc.vocabulary_size_ > 0
    /\ call.err = "InvalidInput"

\* C5: a failing train or predict call on a trained engine changes no later
\* answer of predict.
C5_FailedCallKeepsAnswers ==
    (call.wasTrained /\ call.err \in {"InvalidInput", "DimensionMismatch"}) =>
        \A v \in Vectors : PredictOf(v) = PredictBefore(v)

\* C6: as long as no train call has succeeded, predict fails with NotTrained
\* for every vector and returns no sentiment class.
C6_PredictBeforeTraining ==
    ~hist.valid =>
        /\ \A v \in Vectors : PredictOf(v) = NotTrainedAnswer
        /\ (call.op = "predict" =>
               call.err = "NotTrained" /\ call.ret \notin (NBLabels \cup NBCLabels))

C6_Witness ==
    /\ ~hist.valid
    /\ trains > 0
    /\ call.op = "predict"
    /\ call.err = "NotTrained"

\* C7: on a trained engine predict fails with DimensionMismatch exactly for
\* the vectors whose length differs from the vocabulary size of the latest
\* successful training.
C7_DimensionMismatchExactly ==
    (Trained /\ hist.valid) =>
        \A v \in Vectors : (PredictOf(v).err = "DimensionMismatch") <=> (Len(v) # hist.V)

\* C8: on a trained engine, for every vector of the trained length, predict
\* returns a class of the latest training set whose score
\* prior(c) + sum of v[i] * logLikelihood(c, i) is maximal among its classes.
C8_PredictIsArgmax ==
    (Trained /\ hist.valid) =>
        \A v \in Vectors : Len(v) = hist.V =>
            /\ PredictOf(v).err = "none"
            /\ PredictOf(v).ret \in RefBest(v)

\* C9 as claimed: when several classes tie for the maximum score, predict
\* returns the tied class observed first in the training data.
C9_TieFirstObserved ==
    (Trained /\ hist.valid) =>
        \A v \in Vectors :
            (Len(v) = hist.V /\ PredictOf(v).err = "none" /\ Cardinality(RefBest(v)) >= 2) =>
                /\ PredictOf(v).ret \in RefBest(v)
                /\ \A c \in RefBest(v) : FirstSeen(PredictOf(v).ret) <= FirstSeen(c)

\* The engine's class ordering: classes_ (ascending label order) for
\* NaiveBayesClassifier, the iteration order of classPriors for NaiveBayes
ClassOrder == IF IsNB THEN nb.order ELSE nbc.classes_

\* The score predict computes for the class at position k of the ordering
ScoreAt(k, v) ==
    IF IsNB THEN NBLogProb(nb, nb.order[k], v) ELSE NBCLogProb(nbc, nbc.classes_[k], v)

\* C9 amended: whenever predict returns a class, it is the first class of the
\* engine's class ordering among those whose score is maximal; that ordering
\* is the ascending order of the label strings for NaiveBayesClassifier and
\* the hash-map iteration order of classPriors for NaiveBayes.
C9_TieFirstInClassOrder ==
    /\ (~IsNB /\ hist.valid /\ call.err = "none" /\ TrainCalled) =>
           nbc.classes_ = SortedSeq(LabelsOf(hist.data))
    /\ Trained =>
        \A v \in Vectors :
            (PredictOf(v).err = "none" /\ \E k \in DOMAIN ClassOrder : ClassOrder[k] = PredictOf(v).ret
                                       /\ (IsNB => PredictOf(v).ret # "UNKNOWN")) =>
                \E p \in DOMAIN ClassOrder :
                    /\ ClassOrder[p] = PredictOf(v).ret
                    /\ \A q \in 1..(p - 1) : ~LogGe(ScoreAt(q, v), ScoreAt(p, v))
                    /\ \A q \in (p + 1)..Len(ClassOrder) : ~LogGt(ScoreAt(q, v), ScoreAt(p, v))

\* A tie between two classes that predict resolves against the class
\* observed first
C9_Witness ==
    /\ ~IsNB
    /\ Trained /\ hist.valid
    /\ \E v \in Vectors :
          /\ Len(v) = hist.V
          /\ PredictOf(v).err = "none"
          /\ Cardinality(RefBest(v)) >= 2
          /\ FirstSeen(PredictOf(v).ret) > 1

\* C10: every train call runs with a strictly positive smoothing parameter,
\* which is 1.0 when the constructor was given alpha <= 0.
C10_AlphaPositive ==
    TrainCalled =>
        /\ AlphaInEffect > 0
        /\ (ctorAlpha <= 0 => AlphaInEffect = 1)

\* The prior predict starts from for class c, as the logarithm it adds up
\* (naive_bayes.cpp:88 takes std::log of the stored quotient,
\* NaiveBayesClassifier.cpp:113 reads the stored logarithm)
PriorOf(c) ==
    IF IsNB THEN LogQuot(nb.classPriors[c].n, nb.classPriors[c].d) ELSE nbc.class_priors_[c]

\* The classes predict iterates over
ClassesIterated == {ClassOrder[k] : k \in DOMAIN ClassOrder}

\* C11: on a trained engine the classes predict iterates over are exactly the
\* classes of the latest training set, each with prior count(c)/totalDocs and
\* count(c) >= 1, and the counts add up to totalDocs (the priors sum to 1).
C11_PriorsOfLatestTraining ==
    (Trained /\ hist.valid) =>
        /\ ClassesIterated = LabelsOf(hist.data)
        /\ \A c \in ClassesIterated :
               /\ RefCount(c) >= 1
               /\ PriorOf(c) = LogQuot(RefCount(c), Len(hist.data))
        /\ SumOver([c \in ClassesIterated |-> RefCount(c)], ClassesIterated) = Len(hist.data)

\* --------------------------------------------- notions of the extractors
IsFE == sut = "feature_extractor"

\* The token-to-index map and its size as the accessors return them
Vocabulary == IF IsFE THEN fe.vocabulary ELSE fx.vocabulary_
VocabularySize == IF IsFE THEN FEGetVocabularySize(fe) ELSE FXGetVocabularySize(fx)

\* What extractFeatures returns in the current state
ExtractOf(tokens) == IF IsFE THEN FEExtractFeatures(fe, tokens) ELSE FXExtractFeatures(fx, tokens)

\* The extractor weights by TF-IDF / by counts
TfIdfMode == IsFE /\ fe.method = "TF_IDF"

\* Number of occurrences of token w in a document
Occurrences(tokens, w) == Cardinality({k \in DOMAIN tokens : tokens[k] = w})

\* Global frequency of w in the latest corpus
GlobalFrequency(w) ==
    Cardinality({pos \in (DOMAIN feIn.textData) \X (1..MaxDocLen) :
                    pos[2] \in DOMAIN feIn.textData[pos[1]] /\ feIn.textData[pos[1]][pos[2]] = w})

\* Number of documents of the latest corpus that contain w
DocsContaining(w) ==
    Cardinality({k \in DOMAIN feIn.textData : w \in Range(feIn.textData[k])})

\* The tokens of the latest corpus, and those that reach minFrequency
CorpusTokens == UNION {Range(feIn.textData[k]) : k \in DOMAIN feIn.textData}
Surviving == {w \in CorpusTokens : GlobalFrequency(w) >= feIn.minFrequency}

\* C12: after any sequence of buildVocabulary calls the vocabulary is a
\* bijection between the retained tokens and {0, ..., V-1} (no index shared,
\* none skipped) and getVocabularySize() is the number of tokens in the map.
C12_VocabularyBijection ==
    /\ \A w1, w2 \in DOMAIN Vocabulary : Vocabulary[w1] = Vocabulary[w2] => w1 = w2
    /\ {Vocabulary[w] : w \in DOMAIN Vocabulary} = 0..(Cardinality(DOMAIN Vocabulary) - 1)
    /\ VocabularySize = Cardinality(DOMAIN Vocabulary)
    /\ (feIn.valid /\ ~IsFE) => DOMAIN Vocabulary = CorpusTokens

\* A vocabulary of two tokens built by a second call on a document that
\* repeats a token
C12_Witness ==
    /\ ~IsFE
    /\ fePrev.same
    /\ Cardinality(DOMAIN Vocabulary) = 2
    /\ \E k \in DOMAIN feIn.textData, w \in Tokens : Occurrences(feIn.textData[k], w) = 2

\* C13: buildVocabulary(corpus, minFrequency, maxSize) retains only tokens of
\* global frequency >= minFrequency; with maxSize > 0 it retains the
\* maxSize most frequent of them (all of them otherwise), no dropped
\* survivor being more frequent than a retained token; indices follow
\* non-increasing frequency; an empty corpus or one with every token below
\* minFrequency gives V = 0.
C13_FrequencyFilterAndCap ==
    (IsFE /\ feIn.valid) =>
        /\ DOMAIN Vocabulary \subseteq Surviving
        /\ VocabularySize = IF feIn.maxVocabSize > 0 /\ Cardinality(Surviving) > feIn.maxVocabSize
                            THEN feIn.maxVocabSize ELSE Cardinality(Surviving)
        /\ \A w \in DOMAIN Vocabulary, u \in Surviving \ DOMAIN Vocabulary :
               GlobalFrequency(w) >= GlobalFrequency(u)
        /\ \A w1, w2 \in DOMAIN Vocabulary :
               Vocabulary[w1] < Vocabulary[w2] => GlobalFrequency(w1) >= GlobalFrequency(w2)
        /\ (feIn.textData = <<>> \/ \A w \in CorpusTokens : GlobalFrequency(w) < feIn.minFrequency)
               => VocabularySize = 0

\* The cap drops the less frequent of two survivors, one of which only just
\* reaches minFrequency
C13_Witness ==
    /\ IsFE /\ feIn.valid
    /\ feIn.maxVocabSize = 1
    /\ Cardinality(Surviving) = 2
    /\ \E w \in Surviving : GlobalFrequency(w) = feIn.minFrequency
    /\ \E w \in DOMAIN Vocabulary, u \in Surviving \ DOMAIN Vocabulary :
           GlobalFrequency(w) > GlobalFrequency(u)

\* C14: two buildVocabulary calls in a row with the same corpus, minFrequency
\* and maxSize produce the identical token-to-index mapping.
C14_SameInputSameVocabulary ==
    fePrev.same => Vocabulary = fePrev.vocabulary

\* x >= 0 for an entry of a feature vector
EntryNonNegative(x) == IF TfIdfMode THEN LogGe(x, Zero) ELSE x >= 0

\* C15: in every state of the extractor (before any build, after a build with
\* V = 0, after rebuilds) and for every document, extractFeatures returns a
\* vector of length V with every entry >= 0, in count and in TF-IDF mode.
C15_LengthAndNonNegative ==
    \A tokens \in Docs :
        /\ Len(ExtractOf(tokens)) = VocabularySize
        /\ \A i \in DOMAIN ExtractOf(tokens) : EntryNonNegative(ExtractOf(tokens)[i])

\* A strictly positive TF-IDF weight was returned after a rebuild
C15_Witness ==
    /\ TfIdfMode
    /\ fePrev.same
    /\ feCall.op = "extractFeatures"
    /\ \E i \in DOMAIN feCall.out : LogGt(feCall.out[i], Zero)

\* The vocabulary token with index i
TokenAt(i) == CHOOSE w \in DOMAIN Vocabulary : Vocabulary[w] = i

\* C16: in count mode, for every document and every index i in [0, V),
\* extractFeatures(...)[i] is the number of occurrences in the document of
\* the token with index i, and the entries add up to the number of
\* in-vocabulary token occurrences.
C16_CountMode ==
    ~TfIdfMode =>
        \A tokens \in Docs :
            /\ \A i \in 0..(VocabularySize - 1) :
                   ExtractOf(tokens)[i + 1] = Occurrences(tokens, TokenAt(i))
            /\ SeqSum(ExtractOf(tokens))
                   = Cardinality({k \in DOMAIN tokens : tokens[k] \in DOMAIN Vocabulary})

\* A document with one known and one unknown token was extracted, and one
\* with a token occurring twice can be
C16_Witness ==
    /\ ~TfIdfMode
    /\ feCall.op = "extractFeatures"
    /\ Len(feCall.tokens) = 2
    /\ SeqSum(feCall.out) = 1
    /\ \E tokens \in Docs : \E i \in DOMAIN ExtractOf(tokens) : ExtractOf(tokens)[i] = 2

\* C17: in TF-IDF mode documentFrequencies has length V and docFreq[i] is the
\* number of documents of the latest corpus that contain the token with
\* index i (a document counts once), so 1 <= docFreq[i] <= N.
C17_DocumentFrequencies ==
    TfIdfMode =>
        /\ Len(fe.documentFrequencies) = VocabularySize
        /\ \A w \in DOMAIN Vocabulary :
               /\ fe.documentFrequencies[Vocabulary[w] + 1] = DocsContaining(w)
               /\ 1 <= fe.documentFrequencies[Vocabulary[w] + 1]
               /\ fe.documentFrequencies[Vocabulary[w] + 1] <= Len(feIn.textData)
               /\ fe.documentCount = Len(feIn.textData)

\* After a build that left another document frequency at the same index, a
\* token that one document repeats has docFreq 1 < frequency 2
C17_Witness ==
    /\ TfIdfMode
    /\ fePrev.same
    /\ Len(feIn.textData) = 2
    /\ \E w \in DOMAIN Vocabulary :
           /\ GlobalFrequency(w) = 2
           /\ fe.documentFrequencies[Vocabulary[w] + 1] = 1

\* Extractor objects with arbitrary document statistics, for the guards of
\* calculateTfIdf
TfIdfObjects ==
    {[method |-> "TF_IDF", vocabulary |-> <<>>, documentFrequencies |-> df, documentCount |-> N] :
        df \in SeqsUpTo(0..MaxCorpus, 1), N \in 0..MaxCorpus}

\* C18: in TF-IDF mode a token that occurs in every document of the corpus
\* the vocabulary was built from (docFreq = N) has weight 0 in every
\* extracted vector, and calculateTfIdf returns 0 whenever N = 0 or
\* docFreq[i] = 0.
C18_ZeroWeight ==
    /\ TfIdfMode =>
           \A tokens \in Docs : \A w \in DOMAIN Vocabulary :
               DocsContaining(w) = Len(feIn.textData) => ExtractOf(tokens)[Vocabulary[w] + 1] = Zero
    /\ \A e \in TfIdfObjects, tf \in 1..MaxDocLen :
           (e.documentCount = 0 \/ e.documentFrequencies = <<>> \/ e.documentFrequencies[1] = 0)
               => FECalculateTfIdf(e, tf, 0) = Zero

\* A token of every document of a two-document corpus was extracted from a
\* document that holds it twice
C18_Witness ==
    /\ TfIdfMode
    /\ Len(feIn.textData) = 2
    /\ feCall.op = "extractFeatures"
    /\ \E w \in DOMAIN Vocabulary :
           /\ DocsContaining(w) = 2
           /\ Occurrences(feCall.tokens, w) = 2
           /\ feCall.out[Vocabulary[w] + 1] = Zero

\* ---------------------------------------------- notions of the evaluator
\* The latest evaluate call had a non-empty validation set
EvaluatedNonEmpty == evIn.valid /\ evIn.validationData # <<>>

\* The cell [t][p] of the confusion matrix (0 where the matrix has no entry)
Cell(t, p) == At0(MapAt(ev.confusionMatrix, t), p)

\* The number of examples of the latest validation set with true label t
\* that the model predicted as p
Pairs(t, p) ==
    Cardinality({k \in DOMAIN evIn.validationData :
                    evIn.validationData[k].label = t /\ evIn.predicted[k] = p})

AllCells == SentimentLabel \X SentimentLabel

\* C19: after evaluate on a non-empty validation set every cell [t][p] is the
\* number of examples with true label t predicted as p, the cells add up to
\* the number of examples, and accuracy is (sum of the cells with t = p) over
\* (sum of all cells).
C19_ConfusionMatrixAndAccuracy ==
    EvaluatedNonEmpty =>
        /\ \A c \in AllCells : Cell(c[1], c[2]) = Pairs(c[1], c[2])
        /\ SumOver([c \in AllCells |-> Cell(c[1], c[2])], AllCells) = Len(evIn.validationData)
        /\ ev.metrics.accuracy =
               Rat(SumOver([l \in SentimentLabel |-> Cell(l, l)], SentimentLabel),
                   SumOver([c \in AllCells |-> Cell(c[1], c[2])], AllCells))
        /\ (evCall.op = "evaluate" => evCall.ret.accuracy = ev.metrics.accuracy)

\* The spec's scenario cut to two examples: one wrong prediction, accuracy 1/2
C19_Witness ==
    /\ EvaluatedNonEmpty
    /\ evCall.op = "evaluate"
    /\ Len(evIn.validationData) = 2
    /\ Cell("POSITIVE", "NEGATIVE") = 1
    /\ Cell("NEGATIVE", "NEGATIVE") = 1
    /\ evCall.ret.accuracy = Rat(1, 2)

\* TP, FP, FN of a label in the latest validation set
TP(l) == Pairs(l, l)
FP(l) == SumOver([t \in SentimentLabel \ {l} |-> Pairs(t, l)], SentimentLabel \ {l})
FN(l) == SumOver([p \in SentimentLabel \ {l} |-> Pairs(l, p)], SentimentLabel \ {l})

\* The labels whose precision, respectively recall, is defined
PrecisionDefined == {l \in SentimentLabel : TP(l) + FP(l) > 0}
RecallDefined == {l \in SentimentLabel : TP(l) + FN(l) > 0}

\* The arithmetic mean of f over a non-empty set S
MeanOver(f, S) == RatDiv(RatSumOver(f, S), Rat(Cardinality(S), 1))

\* C20: macro precision and macro recall returned by evaluate are the means
\* over the labels whose precision (TP+FP > 0), respectively recall
\* (TP+FN > 0), is defined; a label with a zero denominator is left out of
\* the average and not counted as 0.
C20_MacroOverDefinedLabels ==
    (EvaluatedNonEmpty /\ evCall.op = "evaluate") =>
        /\ evCall.ret.precision =
               IF PrecisionDefined = {} THEN RatZero
               ELSE MeanOver([l \in PrecisionDefined |-> Rat(TP(l), TP(l) + FP(l))],
                             PrecisionDefined)
        /\ evCall.ret.recall =
               IF RecallDefined = {} THEN RatZero
               ELSE MeanOver([l \in RecallDefined |-> Rat(TP(l), TP(l) + FN(l))], RecallDefined)

\* The latest evaluate call was handed any validation set, the empty one included
Evaluated == evIn.valid

AllZeroMetrics == [accuracy |-> RatZero, precision |-> RatZero, recall |-> RatZero,
                   f1Score |-> RatZero]

\* C21: after any sequence of evaluate calls the confusion matrix and the
\* stored metrics describe the validation set of the latest call only: every
\* cell is the count over that set, the stored metrics are the ones that call
\* returned, and after a call with the empty set the matrix is empty and the
\* metrics are all zero.
C21_RecomputedEveryCall ==
    Evaluated =>
        /\ \A c \in AllCells : Cell(c[1], c[2]) = Pairs(c[1], c[2])
        /\ (evCall.op = "evaluate" => ev.metrics = evCall.ret)
        /\ (evIn.validationData = <<>> =>
                /\ ev.confusionMatrix = <<>>
                /\ ev.metrics = AllZeroMetrics)

\* ------------------------------ notions of the evaluator over a model
\* The latest call was evaluate, on an evaluator whose model was not trained
EvaluatedUntrained == call.op = "evaluate" /\ ~call.wasTrained

\* C22: Evaluator::evaluate on a model whose isTrained() is false reports the
\* error NotTrained and leaves no confusion matrix counted from the UNKNOWN
\* answers that a model gives before training.
C22_EvaluateBeforeTraining ==
    EvaluatedUntrained =>
        /\ call.err = "NotTrained"
        /\ \A t \in SentimentLabel : Cell(t, "UNKNOWN") = 0

\* The latest call was evaluate on the empty validation set
EvaluatedEmpty == evCall.op = "evaluate" /\ evIn.valid /\ evIn.validationData = <<>>

\* C23: evaluate on an empty validation set returns accuracy, precision,
\* recall and F1 all equal to 0 and makes no call of model.predict (the call
\* returns: it does not throw).
C23_EmptyValidationSet ==
    EvaluatedEmpty =>
        /\ evCall.ret = AllZeroMetrics
        /\ evIn.predictCalls = 0

\* An empty validation set handed to an evaluator that has already evaluated
\* a non-empty one
C23_Witness ==
    /\ EvaluatedEmpty
    /\ ev.confusionMatrix # <<>>
    /\ evCall.ret.f1Score = RatZero

\* F1 of one label from its counts: 2TP / (2TP + FP + FN), 0 when undefined
LabelF1(l) ==
    IF 2 * TP(l) + FP(l) + FN(l) = 0 THEN RatZero
    ELSE Rat(2 * TP(l), 2 * TP(l) + FP(l) + FN(l))

\* The average of the per-label F1 values over the true labels of the set
PerLabelF1Mean ==
    MeanOver([l \in LabelsOf(evIn.validationData) |-> LabelF1(l)],
             LabelsOf(evIn.validationData))

\* C24: the F1 score evaluate returns is 2*P*R/(P+R) of the macro-averaged
\* precision P and recall R it returns, and 0 when P + R = 0.
C24_F1FromMacroAverages ==
    (EvaluatedNonEmpty /\ evCall.op = "evaluate") =>
        LET P == evCall.ret.precision
            R == evCall.ret.recall
        IN  evCall.ret.f1Score =
                IF RatAdd(P, R) = RatZero THEN RatZero
                ELSE RatDiv(RatMul(Rat(2, 1), RatMul(P, R)), RatAdd(P, R))

\* An evaluation whose F1 differs from the average of the per-label F1 values
C24_Witness ==
    /\ EvaluatedNonEmpty
    /\ evCall.op = "evaluate"
    /\ evCall.ret.f1Score # RatZero
    /\ evCall.ret.f1Score # PerLabelF1Mean

RunsOf(text, separators) ==
    {r \in (DOMAIN text) \X (DOMAIN text) :
        /\ r[1] <= r[2]
        /\ \A k \in r[1]..r[2] : text[k] \notin separators
        /\ (r[1] = 1 \/ text[r[1] - 1] \in separators)
        /\ (r[2] = Len(text) \/ text[r[2] + 1] \in separators)}

\* The words of a text from left to right
RECURSIVE WordsFrom(_, _)
WordsFrom(text, runs) ==
    IF runs = {} THEN <<>>
    ELSE LET r == CHOOSE x \in runs : \A y \in runs : x[1] <= y[1]
         IN  <<SubSeq(text, r[1], r[2])>> \o WordsFrom(text, runs \ {r})

WordsOf(text, separators) == WordsFrom(text, RunsOf(text, separators))

\* A sequence of words without those of a set
RECURSIVE Without(_, _)
Without(words, S) ==
    IF words = <<>> THEN <<>>
    ELSE IF Head(words) \in S THEN Without(Tail(words), S)
    ELSE <<Head(words)>> \o Without(Tail(words), S)

\* C26: tokenize returns the white-space-separated tokens of its input in
\* their order: all of them when stop-word removal is disabled, and that
\* sequence without the tokens of the stop-word set when it is enabled.
C26_TokenizeSplitsAndFilters ==
    ppCall.op = "tokenize" =>
        ppCall.out = IF pp.useStopWords
                     THEN Without(WordsOf(ppText, WhiteSpace), pp.stopWords)
                     ELSE WordsOf(ppText, WhiteSpace)

\* The stop word "a" is removed and the token "ba" after it is kept
C26_Witness ==
    /\ ppCall.op = "tokenize"
    /\ pp.useStopWords
    /\ WordsOf(ppText, WhiteSpace) = << <<"a">>, <<"b", "a">> >>
    /\ ppCall.out = << <<"b", "a">> >>

\* A word with every letter lower-cased
Lowered(word) == [i \in DOMAIN word |-> ToLower(word[i])]

\* No upper-case letter and no punctuation character
IsClean(c) == c \notin Range(UpperCase) /\ c \notin PunctRegex

\* C27: cleanText returns its input with the letters lower-cased, the
\* punctuation replaced by separators, every run of white space collapsed to
\* one space and no space at either end: the result holds no upper-case
\* letter, no punctuation and no white space but single inner spaces, and its
\* words are the lower-cased words of the input (the runs between white space
\* and punctuation), in order.  No token that preprocess returns holds an
\* upper-case letter or a punctuation character.
C27_CleanTextNormalises ==
    /\ ppCall.op = "cleanText" =>
          LET out == ppCall.out
              words == WordsOf(ppText, WhiteSpace \cup PunctRegex)
          IN  /\ \A i \in DOMAIN out : IsClean(out[i]) /\ (out[i] \in WhiteSpace => out[i] = " ")
              /\ \A i \in DOMAIN out : out[i] = " " => (i > 1 /\ i < Len(out) /\ out[i + 1] # " ")
              /\ WordsOf(out, {" "}) = [k \in DOMAIN words |-> Lowered(words[k])]
    /\ ppCall.op = "preprocess" =>
          \A k \in DOMAIN ppCall.out : \A i \in DOMAIN ppCall.out[k] : IsClean(ppCall.out[k][i])

\* An upper-case letter, a comma and a tab before a word: "A,<tab>b" gives "a b"
C27_Witness ==
    /\ ppCall.op = "cleanText"
    /\ ppText = <<"A", ",", "\t", "b">>
    /\ ppCall.out = <<"a", " ", "b">>

\* ------------------------------------------ the sparse and the dense table
\* The SentimentLabel that stands for a class name of NaiveBayesClassifier
DenseLabel(cls) == IF cls = "positive" THEN "POSITIVE" ELSE "NEGATIVE"

\* The latest training set with its class names as SentimentLabel values
DenseData ==
    [k \in DOMAIN hist.data |->
        [features |-> hist.data[k].features, label |-> DenseLabel(hist.data[k].label)]]

\* logLikelihoods of a NaiveBayes constructed with the same alpha and trained
\* on the same vectors and labels (the table does not depend on the
\* iteration order of classPriors)
DenseTable ==
    NBTrain(NaiveBayesCtor(ctorAlpha), DenseData,
            CHOOSE o \in Perms(LabelsOf(DenseData)) : TRUE).logLikelihoods

\* NaiveBayesClassifier holds the result of training with alpha > 0 on vectors
\* that all have length V
SparseTrained ==
    /\ ~IsNB
    /\ hist.valid
    /\ ctorAlpha > 0
    /\ \A k \in DOMAIN hist.data : Len(hist.data[k].features) = hist.V

\* C28: for every trained class c and index i the value predict looks up in
\* the sparse storage (the explicit entry, or the class default exactly when
\* there is no explicit entry, i.e. W(c, i) = 0) is
\* log((W(c, i) + alpha) / (T(c) + alpha * V)), the value NaiveBayes::train
\* stores at logLikelihoods[c][i] for the same alpha, vectors and labels.
C28_SparseEqualsDense ==
    SparseTrained =>
        \A c \in LabelsOf(hist.data) : \A i \in 1..hist.V :
            /\ NBCLookup(nbc, c, i) = RefLogLikelihood(c, i)
            /\ NBCLookup(nbc, c, i) = DenseTable[DenseLabel(c)][i]
            /\ (i \in DOMAIN nbc.log_likelihoods_[c]) = (RefW(c, i) > 0)

\* A class with an explicit entry at one index and none at the other
C28_Witness ==
    /\ SparseTrained
    /\ hist.V = 2
    /\ \E c \in LabelsOf(hist.data) :
          /\ RefW(c, 1) = 0
          /\ RefW(c, 2) > 0
          /\ NBCLookup(nbc, c, 1) = nbc.default_log_likelihood_[c]
          /\ NBCLookup(nbc, c, 2) # nbc.default_log_likelihood_[c]

\* ------------------------------------------------ notions of the facade
IsSA == sut = "SentimentAnalyzer"

\* The lengths of the feature vectors the facade stores
SAStoredLengths ==
    {Len(sa.trainFeatures[k].features) : k \in DOMAIN sa.trainFeatures}
        \cup {Len(sa.validFeatures[k].features) : k \in DOMAIN sa.validFeatures}

\* C29: in every state of a SentimentAnalyzer whose isTrained flag is true,
\* the vocabulary size of the feature extractor equals the feature count of
\* the model, every stored training and validation feature vector has that
\* length, and no model.predict call of the latest predict or evaluate took
\* the dimension-mismatch path.
C29_FacadeDimensionsAgree ==
    (IsSA /\ sa.isTrained) =>
        /\ FEGetVocabularySize(fe) = nb.featureCount
        /\ SAStoredLengths \subseteq {nb.featureCount}
        /\ "DimensionMismatch" \notin saCall.paths

\* A trained facade with a vocabulary of two words and a validation vector
\* has evaluated it
C29_Witness ==
    /\ IsSA
    /\ sa.isTrained
    /\ saCall.op = "evaluate"
    /\ saCall.wasTrained
    /\ sa.validFeatures # <<>>
    /\ nb.featureCount = 2
    /\ saCall.paths # {}

\* C30: until some train call of a SentimentAnalyzer has returned true,
\* predict returns UNKNOWN, evaluate returns all-zero metrics, the confusion
\* matrix is empty and saveModel returns false; a train call that finds no
\* training data returns false and leaves the vocabulary and the isTrained
\* flag as it found them.
C30_GatedOnTraining ==
    IsSA =>
        /\ ~saTrained =>
              /\ saCall.op = "predict" => saCall.ret = "UNKNOWN"
              /\ saCall.op = "evaluate" => saCall.ret = AllZeroMetrics
              /\ saCall.op = "getConfusionMatrix" => saCall.ret = <<>>
              /\ saCall.op = "saveModel" => saCall.ret = FALSE
              /\ SAGetConfusionMatrix(sa, ev) = <<>>
        /\ (saCall.op = "train" /\ saCall.noData) =>
              /\ saCall.ret = FALSE
              /\ fe.vocabulary = saCall.vocabulary
              /\ sa.isTrained = saCall.wasTrained

\* With validation data loaded and no train call having succeeded, predict,
\* evaluate, saveModel and getConfusionMatrix were called, and then train
\* with no training data
C30_Witness ==
    /\ IsSA
    /\ ~saTrained
    /\ sa.validData # <<>>
    /\ {"predict", "evaluate", "saveModel", "getConfusionMatrix"} \subseteq saCall.early
    /\ saCall.op = "train"
    /\ saCall.noData
====
